---- MODULE Spec2Model ----
(***************************************************************************)
(* neotree: the scan -> group -> aggregate -> render pipeline.             *)
(*                                                                         *)
(* Strings are sequences of one-character strings, so that len(), count(), *)
(* rstrip(), startswith(), join and f-string formatting are computed and   *)
(* not assumed.  A path is the sequence of the names below the scan root;  *)
(* the root itself is the empty sequence.                                  *)
(***************************************************************************)
EXTENDS Integers, Sequences, FiniteSets, TLC

VARIABLES
    dirs,        \* filesystem: paths of the directories below the root
    files,       \* filesystem: paths of the regular files
    links,       \* filesystem: paths of the symbolic links to a directory
    unreadable,  \* filesystem: directories without the permission to list them
    stat_faults, \* filesystem: objects whose type cannot be read (stat fails)
    root_kind,   \* what the scan root path names: "dir", "file" or "missing"
    ignore_lines,\* filesystem: the lines of the root's .gitignore, if it exists
    phase,       \* position of the caller: "setup", "scan", "scanned", ...
    scan_options,\* ScanOptions of the running / last scan
    patterns,    \* PatternFilter._patterns of the running / last scan
    files_only,  \* ScanOptions.files_only of the running / last scan
    gitignore,   \* ScanOptions.gitignore of the running / last scan
    stack,       \* scan: work stack of (directory, depth)
    result,      \* scan: result list of Entry
    short_options, \* ShortOptions of the running / last format_short
    groups,      \* format_short: OrderedDict key -> files, as a sequence of pairs
    overrides,   \* _aggregate_deep_groups: key -> summary line
    idx,         \* _aggregate_deep_groups: position of the for loop in sorted_keys
    lines,       \* _aggregate_deep_groups / format_short: the local "lines"
    centries,    \* format_compat: the entry list it is called with
    compat_options, \* CompatOptions of the running / last format_compat
    cstack,      \* format_compat: work stack of (entry, prefix, is_last)
    clines,      \* format_compat: the local "lines"
    rendered,    \* format_compat: the stack items popped so far, in order
    dir_count,   \* format_compat: directories rendered
    file_count,  \* format_compat: files rendered
    csv_options, \* CsvOptions of the last format_csv
    csv_lines,   \* format_csv: the lines of the text it returned
    args,        \* _run_with_args: the parsed arguments, None before a run
    error        \* _run_with_args: the message of the NtreeError it raised

fsVars == <<dirs, files, links, unreadable, stat_faults, root_kind,
           ignore_lines>>
scanVars == <<scan_options, patterns, files_only, gitignore, stack, result>>
shortVars == <<short_options, groups, overrides, idx, lines>>
compatVars == <<centries, compat_options, cstack, clines, rendered, dir_count,
               file_count>>
csvVars == <<csv_options, csv_lines>>
cliVars == <<args, error>>
vars == <<dirs, files, links, unreadable, stat_faults, root_kind,
          ignore_lines, phase,
          scan_options, patterns, files_only, gitignore, stack, result,
          short_options, groups, overrides, idx, lines,
          centries, compat_options, cstack, clines, rendered, dir_count,
          file_count, csv_options, csv_lines, args, error>>

----------------------------------------------------------------------------
\* Bounds of the model

\* number of filesystem objects created below the root
MaxNodes == 4
\* length of the entry list format_compat is called with
MaxEntries == 4
\* largest max_depth value a scan is called with
MaxDepthOpt == 2
\* number of unreadable directories and of objects whose stat fails
MaxFaults == 1
\* number of filesystem objects in a tree that has a link or one of those
MaxFaultNodes == 3

\* the file and directory names in use: one plain, one hidden
Names == { <<"a">>, <<".", "h">> }

\* fnmatch patterns a PatternFilter is built with
PatternChoices == { <<>>, << <<"a">> >>, << <<"*", "h">> >> }

None == << >>
Some(n) == << n >>

----------------------------------------------------------------------------
\* Strings

Ord(c) ==
    CASE c = " " -> 32 [] c = "(" -> 40 [] c = ")" -> 41 [] c = "*" -> 42
      [] c = "," -> 44 [] c = "." -> 46 [] c = "/" -> 47 [] c = ":" -> 58
      [] c = "0" -> 48 [] c = "1" -> 49 [] c = "2" -> 50 [] c = "3" -> 51
      [] c = "4" -> 52 [] c = "5" -> 53 [] c = "6" -> 54 [] c = "7" -> 55
      [] c = "8" -> 56 [] c = "9" -> 57
      [] c = "#" -> 35
      [] c = "a" -> 97 [] c = "b" -> 98 [] c = "e" -> 101 [] c = "f" -> 102
      [] c = "g" -> 103
      [] c = "h" -> 104 [] c = "i" -> 105 [] c = "l" -> 108 [] c = "s" -> 115
      [] c = "n" -> 110 [] c = "o" -> 111 [] c = "r" -> 114 [] c = "t" -> 116

Min(a, b) == IF a <= b THEN a ELSE b

\* Python's str < str: lexicographic on code points, a proper prefix first
StrLess(s, t) ==
    \E i \in 1..(Min(Len(s), Len(t)) + 1) :
        /\ \A j \in 1..(i - 1) : s[j] = t[j]
        /\ \/ i > Len(s) /\ i <= Len(t)
           \/ i <= Len(s) /\ i <= Len(t) /\ Ord(s[i]) < Ord(t[i])

\* str.startswith for a one-character prefix
StartsWith(s, c) == Len(s) > 0 /\ s[1] = c

\* fnmatch.fnmatch on POSIX (normcase is the identity): '*' and '?' wildcards
RECURSIVE fnmatch(_, _)
fnmatch(name, pat) ==
    IF pat = <<>> THEN name = <<>>
    ELSE IF Head(pat) = "*"
         THEN \/ fnmatch(name, Tail(pat))
              \/ name # <<>> /\ fnmatch(Tail(name), pat)
    ELSE IF name = <<>> THEN FALSE
    ELSE IF Head(pat) = "?" THEN fnmatch(Tail(name), Tail(pat))
    ELSE Head(pat) = Head(name) /\ fnmatch(Tail(name), Tail(pat))

\* PatternFilter.should_exclude
should_exclude(pats, name, is_dir) ==
    \E i \in 1..Len(pats) : fnmatch(name, pats[i])

----------------------------------------------------------------------------
\* Filesystem

Root == << >>
Parent(p) == SubSeq(p, 1, Len(p) - 1)
Basename(p) == p[Len(p)]
Prefix(p, k) == SubSeq(p, 1, k)
IsProperPrefix(p, q) == Len(p) < Len(q) /\ SubSeq(q, 1, Len(p)) = p
IsDir(p) == (p = Root /\ root_kind = "dir") \/ p \in dirs
Exists(p) == IsDir(p) \/ p \in files \/ p \in links
AllNodes == dirs \cup files \cup links
\* the size a tree may grow to
NodeLimit ==
    IF links = {} /\ unreadable = {} /\ stat_faults = {} THEN MaxNodes
    ELSE MaxFaultNodes

\* the filesystem as one value
FS ==
    [dirs |-> dirs, files |-> files, links |-> links, unreadable |-> unreadable,
     stat_faults |-> stat_faults, root_kind |-> root_kind,
     ignore_lines |-> ignore_lines]

\* the path p names once the links on it are followed; every link points at
\* the scan root
RECURSIVE Resolve(_, _)
Resolve(fs, p) ==
    IF \E k \in 1..Len(p) : Prefix(p, k) \in fs.links
    THEN LET k == CHOOSE i \in 1..Len(p) :
                     /\ Prefix(p, i) \in fs.links
                     /\ \A j \in 1..(i - 1) : Prefix(p, j) \notin fs.links
         IN  Resolve(fs, SubSeq(p, k + 1, Len(p)))
    ELSE p

\* the path p names when only the links above its last name are followed
Real(fs, p) ==
    IF p = Root THEN Root ELSE Append(Resolve(fs, Parent(p)), Basename(p))

\* os.scandir(d): the exception it raises, "" when it lists d
ScandirError(fs, d) ==
    LET t == Resolve(fs, d)
    IN  IF t = Root /\ fs.root_kind # "dir"
        THEN IF fs.root_kind = "file" THEN "NotADirectoryError"
             ELSE "FileNotFoundError"
        ELSE IF t # Root /\ t \in fs.files THEN "NotADirectoryError"
        ELSE IF t # Root /\ t \notin fs.dirs THEN "FileNotFoundError"
        ELSE IF t \in fs.unreadable THEN "PermissionError"
        ELSE ""

\* os.scandir: the names in a directory, in no particular order
Scandir(fs, d) ==
    { Basename(p) :
        p \in { q \in fs.dirs \cup fs.files \cup fs.links :
                  Parent(q) = Resolve(fs, d) } }

\* tmp_path / ... mkdir()
MkDir(p) ==
    /\ phase = "setup"
    /\ Cardinality(AllNodes) < NodeLimit
    /\ IsDir(Parent(p)) /\ ~Exists(p)
    /\ dirs' = dirs \cup {p}
    /\ UNCHANGED <<files, links, unreadable, stat_faults, root_kind, ignore_lines,
                   phase,
                   scanVars, shortVars, compatVars, csvVars, cliVars>>

\* tmp_path / ... write_text()
WriteFile(p) ==
    /\ phase = "setup"
    /\ Cardinality(AllNodes) < NodeLimit
    /\ IsDir(Parent(p)) /\ ~Exists(p)
    /\ files' = files \cup {p}
    /\ UNCHANGED <<dirs, links, unreadable, stat_faults, root_kind, ignore_lines,
                   phase,
                   scanVars, shortVars, compatVars, csvVars, cliVars>>

\* the name of the ignore file
GitignoreName == <<".", "g", "i", "t", "i", "g", "n", "o", "r", "e">>

\* contents a .gitignore is written with: empty, a directory pattern, a
\* comment and a wildcard pattern
IgnoreChoices ==
    { <<>>, << <<"a", "/">> >>, << <<"#">>, <<"*", "h">> >> }

\* (tmp_path / ".gitignore").write_text(content)
WriteGitignore(content) ==
    /\ phase = "setup"
    /\ Cardinality(AllNodes) < NodeLimit
    /\ IsDir(Root) /\ ~Exists(<<GitignoreName>>)
    /\ files' = files \cup {<<GitignoreName>>}
    /\ ignore_lines' = content
    /\ UNCHANGED <<dirs, links, unreadable, stat_faults, root_kind, phase,
                   scanVars, shortVars, compatVars, csvVars, cliVars>>

\* a symbolic link to the scan root is created at p
Symlink(p) ==
    /\ phase = "setup"
    /\ Cardinality(AllNodes) < MaxFaultNodes
    /\ IsDir(Parent(p)) /\ ~Exists(p)
    /\ links' = links \cup {p}
    /\ UNCHANGED <<dirs, files, unreadable, stat_faults, root_kind, ignore_lines,
                   phase,
                   scanVars, shortVars, compatVars, csvVars, cliVars>>

\* directory d loses the permission to list it
Chmod(d) ==
    /\ phase = "setup"
    /\ IsDir(d) /\ d \notin unreadable
    /\ Cardinality(AllNodes) <= MaxFaultNodes
    /\ Cardinality(unreadable \cup stat_faults) < MaxFaults
    /\ unreadable' = unreadable \cup {d}
    /\ UNCHANGED <<dirs, files, links, stat_faults, root_kind, ignore_lines,
                   phase,
                   scanVars, shortVars, compatVars, csvVars, cliVars>>

\* the type of the object at p can no longer be read: is_dir() raises OSError
StatFault(p) ==
    /\ phase = "setup"
    /\ p \in AllNodes /\ p \notin stat_faults
    /\ Cardinality(AllNodes) <= MaxFaultNodes
    /\ Cardinality(unreadable \cup stat_faults) < MaxFaults
    /\ stat_faults' = stat_faults \cup {p}
    /\ UNCHANGED <<dirs, files, links, unreadable, root_kind, ignore_lines,
                   phase,
                   scanVars, shortVars, compatVars, csvVars, cliVars>>

\* the scan root is a regular file, or does not exist
RootNotDir(kind) ==
    /\ phase = "setup"
    /\ root_kind = "dir" /\ AllNodes = {} /\ unreadable = {}
    /\ root_kind' = kind
    /\ UNCHANGED <<dirs, files, links, unreadable, stat_faults, ignore_lines,
                   phase,
                   scanVars, shortVars, compatVars, csvVars, cliVars>>

\* directory d and everything below it is removed while the scan runs, after
\* the parent of d was listed and before d is
RmTree(d) ==
    /\ phase = "scan"
    /\ d \in dirs
    /\ \E k \in 1..Len(stack) : stack[k].dir = d
    /\ LET Kept(S) == { p \in S : p # d /\ ~IsProperPrefix(d, p) }
       IN  /\ dirs' = Kept(dirs)
           /\ files' = Kept(files)
           /\ links' = Kept(links)
           /\ unreadable' = Kept(unreadable)
           /\ stat_faults' = Kept(stat_faults)
    /\ UNCHANGED <<root_kind, ignore_lines, phase, scanVars, shortVars, compatVars, csvVars, cliVars>>

----------------------------------------------------------------------------
\* Scanner

\* an entry built with its own path as parent_path
EntryParentSelf(path, name, is_dir, depth, parent_path) ==
    [path |-> path, name |-> name, is_dir |-> is_dir, depth |-> depth,
     parent_path |-> path]

Entry(path, name, is_dir, depth, parent_path) ==
    [path |-> path, name |-> name, is_dir |-> is_dir, depth |-> depth,
     parent_path |-> parent_path]

ScanOptions(max_depth, dirs_only, all_files) ==
    [max_depth |-> max_depth, dirs_only |-> dirs_only, all_files |-> all_files]

\* the sort with the order reversed
RECURSIVE SortNamesDesc(_)
SortNamesDesc(S) ==
    IF S = {} THEN <<>>
    ELSE LET m == CHOOSE x \in S : \A y \in S : x = y \/ StrLess(y, x)
         IN  <<m>> \o SortNamesDesc(S \ {m})

\* raw_entries.sort(key=lambda e: e.name)
RECURSIVE SortNames(_)
SortNames(S) ==
    IF S = {} THEN <<>>
    ELSE LET m == CHOOSE x \in S : \A y \in S : x = y \/ StrLess(x, y)
         IN  <<m>> \o SortNames(S \ {m})

\* the filters with the hidden-name rule applied to files only
SkippedHiddenFilesOnly(opts, pats, name, is_dir) ==
    \/ ~opts.all_files /\ StartsWith(name, ".") /\ ~is_dir
    \/ should_exclude(pats, name, is_dir)
    \/ opts.dirs_only /\ ~is_dir

\* the filters of the for loop: TRUE when the child is skipped
Skipped(opts, pats, name, is_dir) ==
    \/ ~opts.all_files /\ StartsWith(name, ".")
    \/ should_exclude(pats, name, is_dir)
    \/ opts.dirs_only /\ ~is_dir

\* the entries the for loop appends for current_dir, in loop order
\* is_dir() that follows a link to its target
IsDirFollow(fs, path) ==
    Resolve(fs, path) = Root \/ Resolve(fs, path) \in fs.dirs

\* dir_entry.is_dir(follow_symlinks=False)
IsDirNoFollow(fs, path) == Real(fs, path) \in fs.dirs

RECURSIVE LoopEntries(_, _, _, _, _, _)
LoopEntries(fs, raw, current_dir, depth, opts, pats) ==
    IF raw = <<>> THEN <<>>
    ELSE LET name == Head(raw)
             path == Append(current_dir, name)
             is_dir == IsDirNoFollow(fs, path)
             rest == LoopEntries(fs, Tail(raw), current_dir, depth, opts, pats)
         IN  IF Real(fs, path) \in fs.stat_faults THEN rest
             ELSE IF Skipped(opts, pats, name, is_dir) THEN rest
             ELSE <<Entry(path, name, is_dir, depth, current_dir)>> \o rest

\* no directory taken for a child directory
SelectNoDirs(es) == <<>>

SelectSeqDirs(es) == SelectSeq(es, LAMBDA e : e.is_dir)

Reverse(s) == [i \in 1..Len(s) |-> s[Len(s) + 1 - i]]

\* every child directory pushed a second time
PushChildrenTwice(stk, child_dirs) ==
    stk \o Reverse(child_dirs) \o Reverse(child_dirs)

\* child_dirs, pushed in reverse so that the first is popped first
PushChildren(stk, child_dirs) == stk \o Reverse(child_dirs)

\* the depth test with the bound taken one too low
DepthExceededFromBound(opts, depth) ==
    opts.max_depth # None /\ depth >= opts.max_depth[1]

\* "if options.max_depth is not None and depth > options.max_depth"
DepthExceeded(opts, depth) ==
    opts.max_depth # None /\ depth > opts.max_depth[1]

\* the root test left out
RootNotTested(kind) == TRUE

\* "root.is_dir()" of the resolved root
RootIsDir(kind) == kind = "dir"

\* no exception of os.scandir handled
CaughtNone(err) == FALSE

\* "except PermissionError": the exceptions of os.scandir the loop handles
Caught(err) == err = "PermissionError"

\* scan(): up to the first test of the while loop
ScanCall(max_depth, dirs_only, all_files, pats) ==
    /\ phase = "setup"
    /\ scan_options' = ScanOptions(max_depth, dirs_only, all_files)
    /\ patterns' = pats
    /\ result' = <<>>
    /\ IF RootIsDir(root_kind)
       THEN /\ stack' = << [dir |-> Root, depth |-> 0] >>
            /\ phase' = "scan"
       ELSE /\ stack' = <<>>
            /\ phase' = "scanned"
    /\ UNCHANGED <<fsVars, files_only, gitignore, shortVars, compatVars, csvVars, cliVars>>

\* the iteration with the popped pair left on the stack
IterationWithoutPop(fs, opts, pats, stk, res) ==
    LET top == stk[Len(stk)]
        rest == stk
        current_dir == top.dir
        depth == top.depth
        err == ScandirError(fs, current_dir)
    IN  IF DepthExceeded(opts, depth)
        THEN [stack |-> rest, result |-> res, raised |-> FALSE]
        ELSE IF err # ""
        THEN IF Caught(err)
             THEN [stack |-> rest, result |-> res, raised |-> FALSE]
             ELSE [stack |-> rest, result |-> res, raised |-> TRUE]
        ELSE LET raw == SortNames(Scandir(fs, current_dir))
                 new == LoopEntries(fs, raw, current_dir, depth, opts, pats)
                 ds == SelectSeqDirs(new)
                 child_dirs == [i \in 1..Len(ds) |->
                                  [dir |-> ds[i].path, depth |-> depth + 1]]
             IN  [stack |-> PushChildren(rest, child_dirs),
                  result |-> res \o new, raised |-> FALSE]

\* one iteration of "while stack" on the stack stk and the result res: the new
\* stack and result, and whether an exception leaves the loop
Iteration(fs, opts, pats, stk, res) ==
    LET top == stk[Len(stk)]
        rest == SubSeq(stk, 1, Len(stk) - 1)
        current_dir == top.dir
        depth == top.depth
        err == ScandirError(fs, current_dir)
    IN  IF DepthExceeded(opts, depth)
        THEN [stack |-> rest, result |-> res, raised |-> FALSE]
        ELSE IF err # ""
        THEN IF Caught(err)
             THEN [stack |-> rest, result |-> res, raised |-> FALSE]
             ELSE [stack |-> rest, result |-> res, raised |-> TRUE]
        ELSE LET raw == SortNames(Scandir(fs, current_dir))
                 new == LoopEntries(fs, raw, current_dir, depth, opts, pats)
                 ds == SelectSeqDirs(new)
                 child_dirs == [i \in 1..Len(ds) |->
                                  [dir |-> ds[i].path, depth |-> depth + 1]]
             IN  [stack |-> PushChildren(rest, child_dirs),
                  result |-> res \o new, raised |-> FALSE]

\* one iteration of "while stack"; an exception that is not handled ends scan
ScanStep ==
    /\ phase = "scan"
    /\ stack # <<>>
    /\ LET s == Iteration(FS, scan_options, patterns, stack, result)
       IN  /\ stack' = s.stack
           /\ result' = s.result
           /\ phase' = IF s.raised THEN "raised" ELSE phase
    /\ UNCHANGED <<fsVars, scan_options, patterns, files_only, gitignore,
                   shortVars, compatVars, csvVars, cliVars>>

\* "return result"
ScanReturn ==
    /\ phase = "scan"
    /\ stack = <<>>
    /\ phase' = "scanned"
    /\ UNCHANGED <<fsVars, scanVars, shortVars, compatVars, csvVars, cliVars>>

\* the while loop run to its end
RECURSIVE WhileStack(_, _, _, _, _)
WhileStack(fs, opts, pats, stk, res) ==
    IF stk = <<>> THEN [raised |-> FALSE, result |-> res]
    ELSE LET s == Iteration(fs, opts, pats, stk, res)
         IN  IF s.raised THEN [raised |-> TRUE, result |-> s.result]
             ELSE WhileStack(fs, opts, pats, s.stack, s.result)

\* scan(root, options, entry_filter) as a function of the filesystem
scan(fs, opts, pats) ==
    IF ~RootIsDir(fs.root_kind) THEN [raised |-> FALSE, result |-> <<>>]
    ELSE WhileStack(fs, opts, pats, << [dir |-> Root, depth |-> 0] >>, <<>>)

----------------------------------------------------------------------------
\* Scanner options that are not in this scanner.py: files_only and gitignore

\* a spec that matches nothing
LoadNothing(fs) == None

\* load_gitignore_spec(root): the lines of root/.gitignore, None without it
load_gitignore_spec(fs) ==
    IF <<GitignoreName>> \in fs.files THEN Some(fs.ignore_lines) ELSE None

\* GitIgnoreSpec.from_lines: blank lines and comments are no patterns
from_lines(ls) == SelectSeq(ls, LAMBDA l : l # <<>> /\ l[1] # "#")

\* one gitignore pattern without an inner '/': it matches a name at any level,
\* with a trailing '/' only the name of a directory, and with it everything
\* below
PatternMatches(pat, p, is_dir) ==
    IF pat[Len(pat)] = "/"
    THEN \E k \in 1..Len(p) :
            /\ fnmatch(p[k], SubSeq(pat, 1, Len(pat) - 1))
            /\ k < Len(p) \/ is_dir
    ELSE \E k \in 1..Len(p) : fnmatch(p[k], pat)

\* spec.match_file(relative path, with a trailing '/' for a directory)
match_file(ls, p, is_dir) ==
    \E i \in 1..Len(from_lines(ls)) : PatternMatches(from_lines(ls)[i], p, is_dir)

\* the spec the scan works with
IgnoreSpec(fs, gi) == IF gi THEN load_gitignore_spec(fs) ELSE None

\* the for loop with the ignore spec: the children that pass the filters
RECURSIVE LoopEntriesExt(_, _, _, _, _, _, _)
LoopEntriesExt(fs, spec, raw, current_dir, depth, opts, pats) ==
    IF raw = <<>> THEN <<>>
    ELSE LET name == Head(raw)
             path == Append(current_dir, name)
             is_dir == IsDirNoFollow(fs, path)
             rest == LoopEntriesExt(fs, spec, Tail(raw), current_dir, depth,
                                    opts, pats)
         IN  IF Real(fs, path) \in fs.stat_faults THEN rest
             ELSE IF Skipped(opts, pats, name, is_dir) THEN rest
             ELSE IF spec # None /\ match_file(spec[1], path, is_dir) THEN rest
             ELSE <<Entry(path, name, is_dir, depth, current_dir)>> \o rest

\* files-only: a directory is descended into but gets no entry
Emitted(fo, es) == IF fo THEN SelectSeq(es, LAMBDA e : ~e.is_dir) ELSE es

\* one iteration of "while stack" with the two options
IterationExt(fs, opts, fo, gi, pats, stk, res) ==
    LET top == stk[Len(stk)]
        rest == SubSeq(stk, 1, Len(stk) - 1)
        current_dir == top.dir
        depth == top.depth
        err == ScandirError(fs, current_dir)
    IN  IF DepthExceeded(opts, depth)
        THEN [stack |-> rest, result |-> res, raised |-> FALSE]
        ELSE IF err # ""
        THEN IF Caught(err)
             THEN [stack |-> rest, result |-> res, raised |-> FALSE]
             ELSE [stack |-> rest, result |-> res, raised |-> TRUE]
        ELSE LET raw == SortNames(Scandir(fs, current_dir))
                 new == LoopEntriesExt(fs, IgnoreSpec(fs, gi), raw, current_dir,
                                       depth, opts, pats)
                 ds == SelectSeqDirs(new)
                 child_dirs == [i \in 1..Len(ds) |->
                                  [dir |-> ds[i].path, depth |-> depth + 1]]
             IN  [stack |-> PushChildren(rest, child_dirs),
                  result |-> res \o Emitted(fo, new), raised |-> FALSE]

\* scan() called with ScanOptions(..., files_only=fo, gitignore=gi)
ScanCallExt(max_depth, dirs_only, all_files, fo, gi) ==
    /\ phase = "setup"
    /\ scan_options' = ScanOptions(max_depth, dirs_only, all_files)
    /\ patterns' = <<>>
    /\ files_only' = fo
    /\ gitignore' = gi
    /\ result' = <<>>
    /\ IF RootIsDir(root_kind)
       THEN /\ stack' = << [dir |-> Root, depth |-> 0] >>
            /\ phase' = "scan"
       ELSE /\ stack' = <<>>
            /\ phase' = "scanned"
    /\ UNCHANGED <<fsVars, shortVars, compatVars, csvVars, cliVars>>

ScanStepExt ==
    /\ phase = "scan"
    /\ stack # <<>>
    /\ LET s == IterationExt(FS, scan_options, files_only, gitignore, patterns,
                             stack, result)
       IN  /\ stack' = s.stack
           /\ result' = s.result
           /\ phase' = IF s.raised THEN "raised" ELSE phase
    /\ UNCHANGED <<fsVars, scan_options, patterns, files_only, gitignore,
                   shortVars, compatVars, csvVars, cliVars>>

RECURSIVE WhileStackExt(_, _, _, _, _, _, _)
WhileStackExt(fs, opts, fo, gi, pats, stk, res) ==
    IF stk = <<>> THEN [raised |-> FALSE, result |-> res]
    ELSE LET s == IterationExt(fs, opts, fo, gi, pats, stk, res)
         IN  IF s.raised THEN [raised |-> TRUE, result |-> s.result]
             ELSE WhileStackExt(fs, opts, fo, gi, pats, s.stack, s.result)

\* scan with the two options as a function of the filesystem
scan_ext(fs, opts, fo, gi, pats) ==
    IF ~RootIsDir(fs.root_kind) THEN [raised |-> FALSE, result |-> <<>>]
    ELSE WhileStackExt(fs, opts, fo, gi, pats,
                       << [dir |-> Root, depth |-> 0] >>, <<>>)

----------------------------------------------------------------------------
\* Short grouped formatter

ShortOptions(budget, count, order) ==
    [budget |-> budget, count |-> count, order |-> order]

\* sep.join(parts) for strings
RECURSIVE Join(_, _)
Join(parts, sep) ==
    IF parts = <<>> THEN <<>>
    ELSE IF Len(parts) = 1 THEN parts[1]
    ELSE parts[1] \o sep \o Join(Tail(parts), sep)

Digit(d) ==
    CASE d = 0 -> "0" [] d = 1 -> "1" [] d = 2 -> "2" [] d = 3 -> "3"
      [] d = 4 -> "4" [] d = 5 -> "5" [] d = 6 -> "6" [] d = 7 -> "7"
      [] d = 8 -> "8" [] d = 9 -> "9"

\* str(n) of a natural number, as the f-strings format it
RECURSIVE Str(_)
Str(n) == IF n < 10 THEN <<Digit(n)>> ELSE Str(n \div 10) \o <<Digit(n % 10)>>

\* str.count("/")
RECURSIVE CountSlash(_)
CountSlash(s) ==
    IF s = <<>> THEN 0
    ELSE (IF Head(s) = "/" THEN 1 ELSE 0) + CountSlash(Tail(s))

\* str.rstrip("/")
RECURSIVE RStripSlash(_)
RStripSlash(s) ==
    IF s # <<>> /\ s[Len(s)] = "/" THEN RStripSlash(SubSeq(s, 1, Len(s) - 1))
    ELSE s

\* _build_relative_dir_key, for a path at or below root
_build_relative_dir_key(entry_parent) ==
    IF entry_parent = Root THEN <<".">> ELSE Join(entry_parent, <<"/">>)

Keys(g) == { g[i].key : i \in 1..Len(g) }
IndexOf(g, k) == CHOOSE i \in 1..Len(g) : g[i].key = k
FilesOf(g, k) == g[IndexOf(g, k)].files

\* groups.setdefault(key, [])
SetDefault(g, k) ==
    IF k \in Keys(g) THEN g ELSE Append(g, [key |-> k, files |-> <<>>])

\* groups.setdefault(key, []).append(entry)
SetDefaultAppend(g, k, e) ==
    LET g1 == SetDefault(g, k)
    IN  [g1 EXCEPT ![IndexOf(g1, k)].files = Append(@, e)]

\* the second loop of _group_entries_by_parent, from entry i on
RECURSIVE GroupLoop(_, _, _, _)
GroupLoop(entries, i, dir_paths_with_children, g) ==
    IF i > Len(entries) THEN g
    ELSE LET entry == entries[i]
             parent_key == _build_relative_dir_key(entry.parent_path)
             dir_rel == Join(entry.path, <<"/">>)
             g1 == IF entry.is_dir
                   THEN IF dir_rel \notin dir_paths_with_children
                        THEN SetDefault(g, dir_rel \o <<"/">>)
                        ELSE g
                   ELSE SetDefaultAppend(g, parent_key, entry)
         IN  GroupLoop(entries, i + 1, dir_paths_with_children, g1)

\* the grouping with no directory recorded as having children
GroupEveryDirectory(entries) == GroupLoop(entries, 1, {}, <<>>)

_group_entries_by_parent(entries) ==
    LET dir_paths_with_children ==
            { _build_relative_dir_key(entries[i].parent_path) : i \in 1..Len(entries) }
    IN  GroupLoop(entries, 1, dir_paths_with_children, <<>>)

\* list.sort(key=lambda e: e.name, reverse=True): stable, names descending
RECURSIVE SortFilesDesc(_)
SortFilesDesc(fs) ==
    IF fs = <<>> THEN <<>>
    ELSE LET m == CHOOSE i \in 1..Len(fs) :
                     /\ \A j \in 1..Len(fs) : ~StrLess(fs[i].name, fs[j].name)
                     /\ \A j \in 1..(i - 1) : fs[j].name # fs[i].name
             rest == [j \in 1..(Len(fs) - 1) |-> IF j < m THEN fs[j] ELSE fs[j + 1]]
         IN  <<fs[m]>> \o SortFilesDesc(rest)

_format_group_line(dir_key, fs, count) ==
    LET file_names == Join([i \in 1..Len(fs) |-> fs[i].name], <<",", " ">>)
    IN  IF fs = <<>> THEN dir_key
        ELSE IF count
             THEN dir_key \o <<" ", "(", "f", "i", "l", "e", "s", ":", " ">>
                     \o Str(Len(fs)) \o <<")", ":", " ">> \o file_names
        ELSE dir_key \o <<":", " ">> \o file_names

\* a re-render that leaves out the groups without files
BuildLinesSkipEmpty(g, ov, count) ==
    LET kept == SelectSeq(g, LAMBDA x : x.files # <<>>)
    IN  [i \in 1..Len(kept) |->
            IF kept[i].key \in DOMAIN ov THEN ov[kept[i].key]
            ELSE _format_group_line(kept[i].key, kept[i].files, count)]

\* _aggregate_deep_groups._build_lines
_build_lines(g, ov, count) ==
    [i \in 1..Len(g) |->
        IF g[i].key \in DOMAIN ov THEN ov[g[i].key]
        ELSE _format_group_line(g[i].key, g[i].files, count)]

RECURSIVE SumLen(_)
SumLen(ls) == IF ls = <<>> THEN 0 ELSE Len(Head(ls)) + SumLen(Tail(ls))

\* the measure without the separator per line
LinesLengthNoSeparators(ls) == SumLen(ls)

\* _aggregate_deep_groups._lines_length
_lines_length(ls) == SumLen(ls) + Len(ls)

\* the sort without reverse=True: shallowest first
RECURSIVE SortByDepthAsc(_)
SortByDepthAsc(ks) ==
    IF ks = <<>> THEN <<>>
    ELSE LET m == CHOOSE i \in 1..Len(ks) :
                     /\ \A j \in 1..Len(ks) : CountSlash(ks[i]) <= CountSlash(ks[j])
                     /\ \A j \in 1..(i - 1) : CountSlash(ks[i]) < CountSlash(ks[j])
             rest == [j \in 1..(Len(ks) - 1) |-> IF j < m THEN ks[j] ELSE ks[j + 1]]
         IN  <<ks[m]>> \o SortByDepthAsc(rest)

\* sorted(keys, key=lambda k: k.count("/"), reverse=True): stable, so keys of
\* equal depth keep their order
RECURSIVE SortByDepthDesc(_)
SortByDepthDesc(ks) ==
    IF ks = <<>> THEN <<>>
    ELSE LET m == CHOOSE i \in 1..Len(ks) :
                     /\ \A j \in 1..Len(ks) : CountSlash(ks[j]) <= CountSlash(ks[i])
                     /\ \A j \in 1..(i - 1) : CountSlash(ks[j]) < CountSlash(ks[i])
             rest == [j \in 1..(Len(ks) - 1) |-> IF j < m THEN ks[j] ELSE ks[j + 1]]
         IN  <<ks[m]>> \o SortByDepthDesc(rest)

sorted_keys(g) == SortByDepthDesc([i \in 1..Len(g) |-> g[i].key])

\* the summary written in the count option's "(files: N)" style
SummaryLineCountStyle(key, n_files) ==
    RStripSlash(key) \o <<" ", "(", "f", "i", "l", "e", "s", ":", " ">>
        \o Str(n_files) \o <<")">>

\* f"{clean_key}/* ({n_files} files)"
SummaryLine(key, n_files) ==
    RStripSlash(key) \o <<"/", "*", " ", "(">> \o Str(n_files)
        \o <<" ", "f", "i", "l", "e", "s", ")">>

\* the budget test with < for <=
StrictlyWithinBudget(total, budget) == total < budget

\* the budget test the wrong way round
NotWithinBudget(total, budget) == total >= budget

\* "total <= budget" and "_lines_length(lines) <= budget"
WithinBudget(total, budget) == total <= budget

\* an assignment that loses the overrides made before it
AddOverrideForgetting(ov, key, line) == (key :> line)

\* overrides[key] = line
AddOverride(ov, key, line) == (key :> line) @@ ov

\* the body of "for key in sorted_keys": whether it breaks, and the overrides
\* it leaves
AggIter(g, key, ov, budget, count) ==
    LET ls == _build_lines(g, ov, count)
        fs == FilesOf(g, key)
    IN  IF WithinBudget(_lines_length(ls), budget)
        THEN [brk |-> TRUE, ov |-> ov]
        ELSE IF key \in DOMAIN ov \/ fs = <<>>
        THEN [brk |-> FALSE, ov |-> ov]
        ELSE [brk |-> FALSE, ov |-> AddOverride(ov, key, SummaryLine(key, Len(fs)))]

\* the for loop from position i on: the overrides when it ends
RECURSIVE AggLoop(_, _, _, _, _, _)
AggLoop(g, keys, i, ov, budget, count) ==
    IF i > Len(keys) THEN ov
    ELSE LET r == AggIter(g, keys[i], ov, budget, count)
         IN  IF r.brk THEN r.ov
             ELSE AggLoop(g, keys, i + 1, r.ov, budget, count)

\* _aggregate_deep_groups as a function of its arguments
_aggregate_deep_groups(g, budget, count) ==
    LET ls == _build_lines(g, <<>>, count)
    IN  IF WithinBudget(_lines_length(ls), budget) THEN ls
        ELSE _build_lines(g, AggLoop(g, sorted_keys(g), 1, <<>>, budget, count), count)

\* _group_entries_by_parent(entries, root) called with a built entry list
GroupEntries ==
    /\ phase = "setup"
    /\ groups' = _group_entries_by_parent(centries)
    /\ phase' = "grouped"
    /\ UNCHANGED <<fsVars, scanVars, short_options, overrides, idx, lines,
                   compatVars, csvVars, cliVars>>

\* format_short, and _aggregate_deep_groups up to its first budget test
FormatShort(budget, count, order) ==
    /\ phase = "scanned"
    /\ short_options' = ShortOptions(budget, count, order)
    /\ IF result = <<>>
       THEN /\ groups' = <<>>
            /\ lines' = <<>>
            /\ phase' = "rendered"
       ELSE LET g0 == _group_entries_by_parent(result)
                g == IF order = "desc"
                     THEN [i \in 1..Len(g0) |->
                             [g0[i] EXCEPT !.files = SortFilesDesc(@)]]
                     ELSE g0
                ls == _build_lines(g, <<>>, count)
            IN  /\ groups' = g
                /\ lines' = ls
                /\ phase' = IF budget = None \/ WithinBudget(_lines_length(ls), budget[1])
                            THEN "rendered" ELSE "aggregate"
    /\ overrides' = <<>>
    /\ idx' = 1
    /\ UNCHANGED <<fsVars, scanVars, compatVars, csvVars, cliVars>>

\* one iteration of "for key in sorted_keys"
AggStep ==
    /\ phase = "aggregate"
    /\ idx <= Len(groups)
    /\ LET r == AggIter(groups, sorted_keys(groups)[idx], overrides,
                        short_options.budget[1], short_options.count)
       IN  /\ lines' = _build_lines(groups, overrides, short_options.count)
           /\ overrides' = r.ov
           /\ idx' = IF r.brk THEN Len(groups) + 1 ELSE idx + 1
    /\ UNCHANGED <<fsVars, phase, scanVars, short_options, groups, compatVars, csvVars, cliVars>>

\* "return _build_lines()"
AggReturn ==
    /\ phase = "aggregate"
    /\ idx > Len(groups)
    /\ lines' = _build_lines(groups, overrides, short_options.count)
    /\ phase' = "rendered"
    /\ UNCHANGED <<fsVars, scanVars, short_options, groups, overrides, idx,
                   compatVars, csvVars, cliVars>>

----------------------------------------------------------------------------
\* Tree formatter (compat).  The box-drawing characters are written by their
\* code point: "U+251C" is one character.

Glyphs(branch, last_branch, vertical, space) ==
    [branch |-> branch, last_branch |-> last_branch, vertical |-> vertical,
     space |-> space]

UNICODE_GLYPHS ==
    Glyphs(<<"U+251C", "U+2500", "U+2500", " ">>,
           <<"U+2514", "U+2500", "U+2500", " ">>,
           <<"U+2502", " ", " ", " ">>,
           <<" ", " ", " ", " ">>)

ASCII_GLYPHS ==
    Glyphs(<<"|", "-", "-", " ">>,
           <<"\\", "-", "-", " ">>,
           <<"|", " ", " ", " ">>,
           <<" ", " ", " ", " ">>)

\* CompatOptions; root_path is left at None
CompatOptions(charset, dirs_first, full_path, no_report, order) ==
    [charset |-> charset, dirs_first |-> dirs_first, full_path |-> full_path,
     no_report |-> no_report, order |-> order]

\* _group_by_parent: parent_path -> the entries with that parent, in input order
_group_by_parent(es) ==
    [p \in { es[i].parent_path : i \in 1..Len(es) } |->
        SelectSeq(es, LAMBDA e : e.parent_path = p)]

\* a lookup that finds no children
GroupsGetNothing(g, p) == <<>>

\* groups.get(p, [])
GroupsGet(g, p) == IF p \in DOMAIN g THEN g[p] ELSE <<>>

\* sorted(es, key=lambda e: e.name, reverse=reverse): stable in both orders
RECURSIVE SortedByName(_, _)
SortedByName(es, reverse) ==
    IF es = <<>> THEN <<>>
    ELSE LET Before(x, y) == IF reverse THEN StrLess(y, x) ELSE StrLess(x, y)
             m == CHOOSE i \in 1..Len(es) :
                     /\ \A j \in 1..Len(es) : ~Before(es[j].name, es[i].name)
                     /\ \A j \in 1..(i - 1) : es[j].name # es[i].name
             rest == [j \in 1..(Len(es) - 1) |-> IF j < m THEN es[j] ELSE es[j + 1]]
         IN  <<es[m]>> \o SortedByName(rest, reverse)

\* the sort with the reverse flag dropped
SortChildrenAscending(children, dirs_first, reverse) ==
    IF dirs_first
    THEN SortedByName(SelectSeq(children, LAMBDA e : e.is_dir), FALSE)
            \o SortedByName(SelectSeq(children, LAMBDA e : ~e.is_dir), FALSE)
    ELSE SortedByName(children, FALSE)

_sort_children(children, dirs_first, reverse) ==
    IF dirs_first
    THEN SortedByName(SelectSeq(children, LAMBDA e : e.is_dir), reverse)
            \o SortedByName(SelectSeq(children, LAMBDA e : ~e.is_dir), reverse)
    ELSE SortedByName(children, reverse)

\* the report with the plural words whatever the counts
ReportLinePlural(dirs_n, files_n) ==
    Str(dirs_n) \o <<" ", "d", "i", "r", "e", "c", "t", "o", "r", "i", "e", "s">>
        \o <<",", " ">> \o Str(files_n) \o <<" ", "f", "i", "l", "e", "s">>

\* _report_line
_report_line(dirs_n, files_n) ==
    LET dir_word == IF dirs_n = 1
                    THEN <<"d", "i", "r", "e", "c", "t", "o", "r", "y">>
                    ELSE <<"d", "i", "r", "e", "c", "t", "o", "r", "i", "e", "s">>
        file_word == IF files_n = 1 THEN <<"f", "i", "l", "e">>
                     ELSE <<"f", "i", "l", "e", "s">>
    IN  Str(dirs_n) \o <<" ">> \o dir_word \o <<",", " ">>
            \o Str(files_n) \o <<" ">> \o file_word

\* str(path) of an absolute path, the scan root being "/"
PathStr(p) == <<"/">> \o Join(p, <<"/">>)

\* str(path.relative_to(base)); ValueError when path is not at or below base
RelativeTo(p, base) ==
    IF p = base THEN <<".">>
    ELSE Join(SubSeq(p, Len(base) + 1, Len(p)), <<"/">>)

\* the stack items with no child marked as the last
StackItemsNoneLast(children, prefix) ==
    [i \in 1..Len(children) |->
        [entry |-> children[i], prefix |-> prefix, is_last |-> FALSE]]

\* the stack items of sorted children, in sorted order
StackItems(children, prefix) ==
    [i \in 1..Len(children) |->
        [entry |-> children[i], prefix |-> prefix, is_last |-> i = Len(children)]]

\* "for i in range(len - 1, -1, -1): stack.append(...)"
PushItems(stk, items) == stk \o Reverse(items)

\* the test helpers _file / _dir: an entry is appended to the input list
AddEntry(e) ==
    /\ phase = "setup"
    /\ Len(centries) < MaxEntries
    /\ centries' = Append(centries, e)
    /\ UNCHANGED <<fsVars, phase, scanVars, shortVars, csvVars, cliVars, compat_options, cstack,
                   clines, rendered, dir_count, file_count>>

\* format_compat(entries, options): up to the first test of the while loop,
\* or to the return for an empty list
FormatCompat(charset, dirs_first, full_path, no_report, order) ==
    /\ phase = "setup"
    /\ compat_options' =
          CompatOptions(charset, dirs_first, full_path, no_report, order)
    /\ rendered' = <<>>
    /\ dir_count' = 0
    /\ file_count' = 0
    /\ IF centries = <<>>
       THEN /\ clines' = IF no_report THEN << <<".">> >>
                         ELSE << <<".">>, <<>>, _report_line(0, 0) >>
            /\ cstack' = <<>>
            /\ phase' = "compat_done"
       ELSE LET groups_ == _group_by_parent(centries)
                root_parent == centries[1].parent_path
                root_children ==
                    _sort_children(GroupsGet(groups_, root_parent), dirs_first,
                                   order = "desc")
            IN  /\ clines' = << <<".">> >>
                /\ cstack' = PushItems(<<>>, StackItems(root_children, <<>>))
                /\ phase' = "compat"
    /\ UNCHANGED <<fsVars, scanVars, shortVars, csvVars, cliVars, centries>>

\* one iteration of "while stack"
CompatStep ==
    /\ phase = "compat"
    /\ cstack # <<>>
    /\ LET top == cstack[Len(cstack)]
           rest == SubSeq(cstack, 1, Len(cstack) - 1)
           child == top.entry
           prefix == top.prefix
           is_last == top.is_last
           glyphs == IF compat_options.charset = "ascii" THEN ASCII_GLYPHS
                     ELSE UNICODE_GLYPHS
           root_parent == centries[1].parent_path
           connector == IF is_last THEN glyphs.last_branch ELSE glyphs.branch
           shown == IF compat_options.full_path
                    THEN IF child.path = root_parent
                            \/ IsProperPrefix(root_parent, child.path)
                         THEN RelativeTo(child.path, root_parent)
                         ELSE PathStr(child.path)
                    ELSE child.name
           display_name == IF child.is_dir THEN shown \o <<"/">> ELSE shown
           next_prefix == prefix \o (IF is_last THEN glyphs.space
                                     ELSE glyphs.vertical)
           grandchildren ==
               _sort_children(GroupsGet(_group_by_parent(centries), child.path),
                              compat_options.dirs_first,
                              compat_options.order = "desc")
       IN  /\ dir_count' = IF child.is_dir THEN dir_count + 1 ELSE dir_count
           /\ file_count' = IF child.is_dir THEN file_count ELSE file_count + 1
           /\ clines' = Append(clines, prefix \o connector \o display_name)
           /\ rendered' = Append(rendered, top)
           /\ cstack' = IF child.is_dir
                        THEN PushItems(rest, StackItems(grandchildren, next_prefix))
                        ELSE rest
    /\ UNCHANGED <<fsVars, phase, scanVars, shortVars, csvVars, cliVars, centries, compat_options>>

\* the report is appended and the lines are returned, to be joined by "\n"
CompatReturn ==
    /\ phase = "compat"
    /\ cstack = <<>>
    /\ clines' = IF compat_options.no_report THEN clines
                 ELSE clines \o << <<>>, _report_line(dir_count, file_count) >>
    /\ phase' = "compat_done"
    /\ UNCHANGED <<fsVars, scanVars, shortVars, csvVars, cliVars, centries, compat_options, cstack,
                   rendered, dir_count, file_count>>

----------------------------------------------------------------------------
\* Tabular formatter (csv)

\* CsvOptions; root_path is left at None, columns at DEFAULT_COLUMNS
CsvOptions(fo, order) == [files_only |-> fo, order |-> order]

\* Path.name: the last name of a path, empty for the root "/"
PathName(p) == IF p = Root THEN <<>> ELSE Basename(p)

\* the extract functions of DEFAULT_COLUMNS, in column order
ExtractColumns(entry) ==
    << PathName(entry.parent_path), entry.name, PathStr(entry.path),
       Str(entry.depth) >>

\* [col.name for col in columns]
ColumnNames ==
    << <<"p", "a", "r", "e", "n", "t", "_", "d", "i", "r">>,
       <<"f", "i", "l", "e", "n", "a", "m", "e">>,
       <<"f", "u", "l", "l", "p", "a", "t", "h">>,
       <<"d", "e", "p", "t", "h">> >>

\* csv.writer with QUOTE_MINIMAL: a field with a delimiter, a quote or a line
\* break is put in quotes, its quotes doubled
RECURSIVE DoubleQuotes(_)
DoubleQuotes(s) ==
    IF s = <<>> THEN <<>>
    ELSE (IF Head(s) = "\"" THEN <<"\"", "\"">> ELSE <<Head(s)>>)
            \o DoubleQuotes(Tail(s))

CsvField(s) ==
    IF \E i \in 1..Len(s) : s[i] \in {",", "\"", "\n", "\r"}
    THEN <<"\"">> \o DoubleQuotes(s) \o <<"\"">>
    ELSE s

\* writer.writerow(fields), without the line terminator
WriteRow(fields) ==
    Join([i \in 1..Len(fields) |-> CsvField(fields[i])], <<",">>)

\* itertools.groupby(entries, key=parent_path): the runs of consecutive
\* entries with the same parent
RECURSIVE GroupBy(_)
GroupBy(es) ==
    IF es = <<>> THEN <<>>
    ELSE LET n == CHOOSE k \in 1..Len(es) :
                     /\ \A i \in 1..k : es[i].parent_path = es[1].parent_path
                     /\ k < Len(es) => es[k + 1].parent_path # es[1].parent_path
         IN  <<SubSeq(es, 1, n)>> \o GroupBy(SubSeq(es, n + 1, Len(es)))

RECURSIVE Concat(_)
Concat(ss) == IF ss = <<>> THEN <<>> ELSE Head(ss) \o Concat(Tail(ss))

\* the entries in input order whatever the order asked for
EffectiveEntriesAsGiven(es, order) == es

\* effective_entries: each run sorted by name, descending, for order "desc"
EffectiveEntries(es, order) ==
    IF order = "desc"
    THEN LET runs == GroupBy(es)
         IN  Concat([i \in 1..Len(runs) |-> SortedByName(runs[i], TRUE)])
    ELSE es

\* the data rows with every entry written, directories included
DataRowsAll(es, fo) == [i \in 1..Len(es) |-> WriteRow(ExtractColumns(es[i]))]

\* the for loop over effective_entries: the rows written
DataRows(es, fo) ==
    LET kept == SelectSeq(es, LAMBDA e : ~(fo /\ e.is_dir))
    IN  [i \in 1..Len(kept) |-> WriteRow(ExtractColumns(kept[i]))]

\* format_csv(entries, CsvOptions(files_only=fo, order=order)): the lines of
\* the text it returns
format_csv(es, fo, order) ==
    <<WriteRow(ColumnNames)>> \o DataRows(EffectiveEntries(es, order), fo)

\* format_csv called with a built entry list
CsvOfEntries(fo, order) ==
    /\ phase = "setup"
    /\ csv_options' = CsvOptions(fo, order)
    /\ csv_lines' = format_csv(centries, fo, order)
    /\ phase' = "csv_done"
    /\ UNCHANGED <<fsVars, scanVars, shortVars, compatVars, cliVars>>

\* format_csv called with the result of a scan
CsvOfScan(fo, order) ==
    /\ phase = "scanned"
    /\ csv_options' = CsvOptions(fo, order)
    /\ csv_lines' = format_csv(result, fo, order)
    /\ phase' = "csv_done"
    /\ UNCHANGED <<fsVars, scanVars, shortVars, compatVars, cliVars>>

----------------------------------------------------------------------------
\* Command line (cli.py)

\* preset.PRESETS
PRESETS ==
    [ python |->
        << <<"_", "_", "p", "y", "c", "a", "c", "h", "e", "_", "_">>,
           <<".", "v", "e", "n", "v">>,
           <<"*", ".", "p", "y", "c">>,
           <<".", "p", "y", "t", "e", "s", "t", "_", "c", "a", "c", "h", "e">>,
           <<"d", "i", "s", "t">>,
           <<"b", "u", "i", "l", "d">>,
           <<"*", ".", "e", "g", "g", "-", "i", "n", "f", "o">> >>,
      node |->
        << <<"n", "o", "d", "e", "_", "m", "o", "d", "u", "l", "e", "s">>,
           <<".", "n", "e", "x", "t">>,
           <<"d", "i", "s", "t">>,
           <<".", "c", "a", "c", "h", "e">>,
           <<"c", "o", "v", "e", "r", "a", "g", "e">> >>,
      rust |->
        << <<"t", "a", "r", "g", "e", "t">> >>,
      generic |->
        << <<".", "g", "i", "t">>,
           <<".", "D", "S", "_", "S", "t", "o", "r", "e">>,
           <<"T", "h", "u", "m", "b", "s", ".", "d", "b">> >> ]

\* get_preset_patterns(name), for a known name: "generic" is always applied
get_preset_patterns(name) ==
    (IF name # "generic" THEN PRESETS["generic"] ELSE <<>>) \o PRESETS[name]

\* the parsed arguments; directory, output_file, charset, dirs_first,
\* no_report and full_path are left at their defaults
Args(level, a, d, pats, preset, s, md, budget, count, csv, fo, order) ==
    [max_depth |-> level, all_files |-> a, dirs_only |-> d,
     patterns |-> pats, preset |-> preset, short_mode |-> s,
     md_mode |-> md, budget |-> budget, count |-> count,
     csv_mode |-> csv, files_only |-> fo, order |-> order]

\* _resolve_root: the message of the NtreeError, None when root is a directory
_resolve_root(kind) ==
    IF ~RootIsDir(kind) THEN Some("is not a directory") ELSE None

\* _build_exclude_patterns: the message of the NtreeError, None without one
PresetError(a) ==
    IF a.preset # None /\ a.preset[1] \notin DOMAIN PRESETS
    THEN Some("Unknown preset") ELSE None

\* _build_exclude_patterns: the pattern list
_build_exclude_patterns(a) ==
    IF a.preset = None THEN a.patterns
    ELSE a.patterns \o get_preset_patterns(a.preset[1])

\* the level handed to the scanner as it is
TranslateLevelUnchanged(level_arg) == level_arg

\* _translate_level_to_scan_depth, for a level that is None or at least 1
_translate_level_to_scan_depth(level_arg) ==
    IF level_arg = None THEN None ELSE Some(level_arg[1] - 1)

\* _translate_level_to_scan_depth: the message of the NtreeError
LevelError(level_arg) ==
    IF level_arg # None /\ level_arg[1] < 1
    THEN Some("Invalid level, must be greater than 0.") ELSE None

\* the checks with --files-only and --short let through together
ValidateWithoutFilesOnlyShort(a) ==
    IF a.short_mode /\ a.dirs_only
    THEN Some("--short is incompatible with --dirs-only (-d)")
    ELSE IF ~a.short_mode /\ a.budget # None THEN Some("--budget requires --short")
    ELSE IF ~a.short_mode /\ a.count THEN Some("--count requires --short")
    ELSE IF a.budget # None /\ a.budget[1] < 1
    THEN Some("--budget must be a positive integer")
    ELSE IF a.csv_mode /\ a.short_mode THEN Some("--csv is incompatible with --short")
    ELSE IF a.csv_mode /\ a.md_mode THEN Some("--csv is incompatible with --md")
    ELSE IF a.files_only /\ a.dirs_only
    THEN Some("--files-only (-F) is incompatible with --dirs-only (-d)")
    ELSE None

\* _validate_option_combinations: the message of the NtreeError, None when
\* the combination is allowed
_validate_option_combinations(a) ==
    IF a.short_mode /\ a.dirs_only
    THEN Some("--short is incompatible with --dirs-only (-d)")
    ELSE IF ~a.short_mode /\ a.budget # None THEN Some("--budget requires --short")
    ELSE IF ~a.short_mode /\ a.count THEN Some("--count requires --short")
    ELSE IF a.budget # None /\ a.budget[1] < 1
    THEN Some("--budget must be a positive integer")
    ELSE IF a.csv_mode /\ a.short_mode THEN Some("--csv is incompatible with --short")
    ELSE IF a.csv_mode /\ a.md_mode THEN Some("--csv is incompatible with --md")
    ELSE IF a.files_only /\ a.dirs_only
    THEN Some("--files-only (-F) is incompatible with --dirs-only (-d)")
    ELSE IF a.files_only /\ a.short_mode
    THEN Some("--files-only (-F) is incompatible with --short")
    ELSE None

\* the first NtreeError of _run_with_args, in the order of its calls
FirstError(kind, a) ==
    IF _resolve_root(kind) # None THEN _resolve_root(kind)
    ELSE IF PresetError(a) # None THEN PresetError(a)
    ELSE IF LevelError(a.max_depth) # None THEN LevelError(a.max_depth)
    ELSE _validate_option_combinations(a)

\* _run_with_args(args): the validation, and scan() up to the first test of
\* its while loop
RunNtree(a) ==
    /\ phase = "setup"
    /\ args' = Some(a)
    /\ error' = FirstError(root_kind, a)
    /\ IF FirstError(root_kind, a) # None
       THEN /\ phase' = "error"
            /\ UNCHANGED scanVars
       ELSE /\ scan_options' =
                  ScanOptions(_translate_level_to_scan_depth(a.max_depth),
                              a.dirs_only, a.all_files)
            /\ patterns' = _build_exclude_patterns(a)
            /\ files_only' = IF ~a.csv_mode THEN a.files_only ELSE FALSE
            /\ gitignore' = FALSE
            /\ result' = <<>>
            /\ IF RootIsDir(root_kind)
               THEN /\ stack' = << [dir |-> Root, depth |-> 0] >>
                    /\ phase' = "scan"
               ELSE /\ stack' = <<>>
                    /\ phase' = "scanned"
    /\ UNCHANGED <<fsVars, shortVars, compatVars, csvVars>>

\* format_compat called with the result of a scan
CompatOfScan(charset, dirs_first, full_path, no_report, order) ==
    /\ phase = "scanned"
    /\ centries' = result
    /\ compat_options' =
          CompatOptions(charset, dirs_first, full_path, no_report, order)
    /\ rendered' = <<>>
    /\ dir_count' = 0
    /\ file_count' = 0
    /\ IF result = <<>>
       THEN /\ clines' = IF no_report THEN << <<".">> >>
                         ELSE << <<".">>, <<>>, _report_line(0, 0) >>
            /\ cstack' = <<>>
            /\ phase' = "compat_done"
       ELSE LET groups_ == _group_by_parent(result)
                root_parent == result[1].parent_path
                root_children ==
                    _sort_children(GroupsGet(groups_, root_parent), dirs_first,
                                   order = "desc")
            IN  /\ clines' = << <<".">> >>
                /\ cstack' = PushItems(<<>>, StackItems(root_children, <<>>))
                /\ phase' = "compat"
    /\ UNCHANGED <<fsVars, scanVars, shortVars, csvVars, cliVars>>

\* format_markdown(output, md_opts): the formatted text is wrapped; what the
\* envelope looks like is not modelled
WrapMarkdown ==
    /\ args # None
    /\ args[1].md_mode
    /\ phase \in {"rendered", "compat_done", "csv_done"}
    /\ phase' = "wrapped"
    /\ UNCHANGED <<fsVars, scanVars, shortVars, compatVars, csvVars, cliVars>>

\* _format_output: the formatter the arguments select
FormatOutput ==
    /\ args # None
    /\ IF args[1].csv_mode THEN CsvOfScan(args[1].files_only, args[1].order)
       ELSE IF args[1].short_mode
       THEN FormatShort(args[1].budget, args[1].count, args[1].order)
       ELSE CompatOfScan("unicode", FALSE, FALSE, FALSE, args[1].order)

----------------------------------------------------------------------------

Paths(n) == UNION { [1..k -> Names] : k \in 1..n }

MaxDepths == {None} \cup { Some(n) : n \in 0..MaxDepthOpt }

Init ==
    /\ dirs = {}
    /\ files = {}
    /\ links = {}
    /\ unreadable = {}
    /\ stat_faults = {}
    /\ root_kind = "dir"
    /\ ignore_lines = <<>>
    /\ phase = "setup"
    /\ scan_options = ScanOptions(None, FALSE, FALSE)
    /\ patterns = <<>>
    /\ files_only = FALSE
    /\ gitignore = FALSE
    /\ stack = <<>>
    /\ result = <<>>
    /\ short_options = ShortOptions(None, FALSE, "asc")
    /\ groups = <<>>
    /\ overrides = <<>>
    /\ idx = 0
    /\ lines = <<>>
    /\ centries = <<>>
    /\ compat_options = CompatOptions("unicode", FALSE, FALSE, FALSE, "asc")
    /\ cstack = <<>>
    /\ clines = <<>>
    /\ rendered = <<>>
    /\ dir_count = 0
    /\ file_count = 0
    /\ csv_options = CsvOptions(FALSE, "asc")
    /\ csv_lines = <<>>
    /\ args = None
    /\ error = None

Setup ==
    \E p \in Paths(MaxNodes) : MkDir(p) \/ WriteFile(p)

NextScan ==
    \/ Setup
    \/ \E md \in MaxDepths, d \in BOOLEAN, a \in BOOLEAN, pats \in PatternChoices :
          ScanCall(md, d, a, pats)
    \/ ScanStep
    \/ ScanReturn

SpecScan == Init /\ [][NextScan]_vars

\* trees with links, unreadable directories and objects whose stat fails, and
\* roots that are no directory
SetupFault ==
    \/ \E p \in Paths(MaxNodes) : Symlink(p) \/ StatFault(p)
    \/ \E d \in Paths(MaxNodes) \cup {Root} : Chmod(d)
    \/ \E kind \in {"file", "missing"} : RootNotDir(kind)

\* scans of such trees
NextFault ==
    \/ Setup
    \/ SetupFault
    \/ \E d \in BOOLEAN, a \in BOOLEAN : ScanCall(None, d, a, <<>>)
    \/ ScanStep
    \/ ScanReturn

SpecFault == Init /\ [][NextFault]_vars

\* weak fairness of ScanStep, WF_vars(ScanStep), written out: the step is
\* enabled exactly while the loop test "while stack" of a running scan holds
FairScanStep ==
    \/ []<>~(phase = "scan" /\ stack # <<>>)
    \/ []<><<ScanStep>>_vars

\* ... where the loop of a running scan goes on as long as it can: scan is
\* one synchronous call, nothing suspends it
SpecTerminate ==
    Init /\ [][NextFault]_vars /\ FairScanStep /\ WF_vars(ScanReturn)

\* scans with the files-only and the ignore-file options, of trees with and
\* without a .gitignore; files-only and directories-only exclude each other
NextExt ==
    \/ Setup
    \/ \E content \in IgnoreChoices : WriteGitignore(content)
    \/ \E md \in MaxDepths, a \in BOOLEAN, gi \in BOOLEAN,
          mode \in {"all", "dirs", "files"} :
          ScanCallExt(md, mode = "dirs", a, mode = "files", gi)
    \/ ScanStepExt
    \/ ScanReturn

SpecExt == Init /\ [][NextExt]_vars

\* ... while directories are removed under the running scan
NextVanish ==
    \/ Setup
    \/ SetupFault
    \/ \E d \in BOOLEAN, a \in BOOLEAN : ScanCall(None, d, a, <<>>)
    \/ ScanStep
    \/ ScanReturn
    \/ \E d \in Paths(MaxNodes) : RmTree(d)

SpecVanish == Init /\ [][NextVanish]_vars

\* budgets format_short is called with
MaxBudget == 40
Budgets == {None} \cup { Some(b) : b \in 0..MaxBudget }

\* the compact pipeline: the scan shows every entry, then format_short
Next ==
    \/ Setup
    \/ ScanCall(None, FALSE, TRUE, <<>>)
    \/ ScanStep
    \/ ScanReturn
    \/ \E b \in Budgets, c \in BOOLEAN, o \in {"asc", "desc"} : FormatShort(b, c, o)
    \/ AggStep
    \/ AggReturn

Spec == Init /\ [][Next]_vars

\* the compact pipeline called with a budget, in ascending order: the runs the
\* comparison of budgets is made on
NextBudget ==
    \/ Setup
    \/ ScanCall(None, FALSE, TRUE, <<>>)
    \/ ScanStep
    \/ ScanReturn
    \/ \E b \in 0..MaxBudget, c \in BOOLEAN : FormatShort(Some(b), c, "asc")
    \/ AggStep
    \/ AggReturn

SpecBudget == Init /\ [][NextBudget]_vars

\* the entries format_compat is called with: any list, sorted or not, of
\* files and directories in the root and in its directory "a"
CompatParents == { Root, << <<"a">> >> }
CompatEntries ==
    { Entry(Append(par, n), n, d, Len(par), par) :
        par \in CompatParents, n \in Names, d \in BOOLEAN }

\* format_compat called with such a list, in each order, with and without
\* dirs_first
NextCompat ==
    \/ \E e \in CompatEntries : AddEntry(e)
    \/ \E df \in BOOLEAN, o \in {"asc", "desc"} :
          FormatCompat("unicode", df, FALSE, FALSE, o)
    \/ CompatStep
    \/ CompatReturn

SpecCompat == Init /\ [][NextCompat]_vars

\* format_compat called with such a list in each character set, with and
\* without the report
NextReport ==
    \/ \E e \in CompatEntries : AddEntry(e)
    \/ \E cs \in {"unicode", "ascii"}, nr \in BOOLEAN :
          FormatCompat(cs, FALSE, FALSE, nr, "asc")
    \/ CompatStep
    \/ CompatReturn

SpecReport == Init /\ [][NextReport]_vars

\* format_csv called with such a list, with and without files_only, in each
\* order
NextCsv ==
    \/ \E e \in CompatEntries : AddEntry(e)
    \/ \E fo \in BOOLEAN, o \in {"asc", "desc"} : CsvOfEntries(fo, o)

SpecCsv == Init /\ [][NextCsv]_vars

\* _group_entries_by_parent called with such a list
NextGroup ==
    \/ \E e \in CompatEntries : AddEntry(e)
    \/ GroupEntries

SpecGroup == Init /\ [][NextGroup]_vars

\* budgets the ordered renderings are made with: none, one below every
\* rendering and one that some renderings meet with one group summarized
BudgetsOrder == { None, Some(MaxBudget \div 4), Some(MaxBudget - 6) }

\* a scan, then format_short or format_csv of its result in each order
NextOrder ==
    \/ Setup
    \/ \E md \in MaxDepths, a \in BOOLEAN : ScanCall(md, FALSE, a, <<>>)
    \/ ScanStep
    \/ ScanReturn
    \/ \E b \in BudgetsOrder, c \in BOOLEAN, o \in {"asc", "desc"} :
          FormatShort(b, c, o)
    \/ AggStep
    \/ AggReturn
    \/ \E fo \in BOOLEAN, o \in {"asc", "desc"} : CsvOfScan(fo, o)

SpecOrder == Init /\ [][NextOrder]_vars

\* values of -L / --level: none, invalid ones, and 1 .. MaxDepthOpt + 1
Levels == {None} \cup { Some(n) : n \in -1..(MaxDepthOpt + 1) }

\* the arguments of ntree -L <level> [-a] [-d] <root>
LevelArgs ==
    { Args(level, a, d, <<>>, None, FALSE, FALSE, None, FALSE, FALSE, FALSE,
           "asc") : level \in Levels, a \in BOOLEAN, d \in BOOLEAN }

\* such a run, up to the return of scan
NextLevel ==
    \/ Setup
    \/ \E a \in LevelArgs : RunNtree(a)
    \/ ScanStepExt
    \/ ScanReturn

SpecLevel == Init /\ [][NextLevel]_vars

\* a scan with any depth limit, hidden, directories-only and filter setting,
\* or with files-only, then format_compat of its result
NextTree ==
    \/ Setup
    \/ \E md \in MaxDepths, d \in BOOLEAN, a \in BOOLEAN, pats \in PatternChoices :
          ScanCall(md, d, a, pats)
    \/ \E md \in MaxDepths, a \in BOOLEAN : ScanCallExt(md, FALSE, a, TRUE, FALSE)
    \/ ScanStepExt
    \/ ScanReturn
    \/ CompatOfScan("unicode", FALSE, FALSE, FALSE, "asc")
    \/ CompatStep
    \/ CompatReturn

SpecTree == Init /\ [][NextTree]_vars

\* argument lists with and without each of the validated options: levels
\* and budgets of 0 and 1, a known and an unknown preset, every mode flag
ValidateArgs ==
    { Args(level, FALSE, d, <<>>, preset, s, md, budget, c, csv, fo, "asc") :
        level \in {None, Some(0), Some(1)},
        preset \in {None, Some("rust"), Some("nope")},
        budget \in {None, Some(0), Some(1)},
        d \in BOOLEAN, s \in BOOLEAN, md \in BOOLEAN, c \in BOOLEAN,
        csv \in BOOLEAN, fo \in BOOLEAN }

\* run_ntree with such arguments on a root that is a directory with files
\* and directories in it, a file, or missing
NextValidate ==
    \/ \E n \in Names : MkDir(<<n>>) \/ WriteFile(<<n>>)
    \/ \E kind \in {"file", "missing"} : RootNotDir(kind)
    \/ \E a \in ValidateArgs : RunNtree(a)
    \/ ScanStepExt
    \/ ScanReturn
    \/ FormatOutput
    \/ AggStep
    \/ AggReturn
    \/ CompatStep
    \/ CompatReturn
    \/ WrapMarkdown

SpecValidate == Init /\ [][NextValidate]_vars

----------------------------------------------------------------------------
\* Vocabulary of the properties

\* _aggregate_deep_groups has been called by the last format_short
AggCalled == short_options.budget # None /\ groups # <<>>
\* ... and has returned: "lines" is its return value
AggReturned == phase = "rendered" /\ AggCalled
Budget == short_options.budget[1]

\* measured size: the sum of the line lengths plus one per line
MeasuredSize(ls) == SumLen(ls) + Len(ls)

\* "<key without trailing '/'>/* (<N> files)"
SummaryForm(key, n) ==
    RStripSlash(key) \o <<"/", "*", " ", "(">> \o Str(n)
        \o <<" ", "f", "i", "l", "e", "s", ")">>

NonEmpty(i) == groups[i].files # <<>>
Depth(i) == CountSlash(groups[i].key)
DetailLine(i) ==
    _format_group_line(groups[i].key, groups[i].files, short_options.count)
SummaryOf(i) == SummaryForm(groups[i].key, Len(groups[i].files))
\* group i is shown by its summary line in ls
Summarized(ls, i) == NonEmpty(i) /\ ls[i] = SummaryOf(i)
NumSummarized(ls) == Cardinality({ i \in 1..Len(groups) : Summarized(ls, i) })
VerbatimLines == [i \in 1..Len(groups) |-> DetailLine(i)]

----------------------------------------------------------------------------
\* C1: the lines _aggregate_deep_groups returns either measure at most the
\* budget, or every group with a non-empty file list is shown by its summary
\* line.
C1_FitsOrAllSummarized ==
    AggReturned =>
        \/ MeasuredSize(lines) <= Budget
        \/ \A i \in 1..Len(groups) : NonEmpty(i) => Summarized(lines, i)

\* a call that ended over budget with two groups summarized and a childless
\* directory left as it is
C1_Witness ==
    /\ AggReturned
    /\ MeasuredSize(lines) > Budget
    /\ NumSummarized(lines) >= 2
    /\ \E i \in 1..Len(groups) : ~NonEmpty(i)

\* a call that stopped early because the budget was met
C1_WitnessFits ==
    /\ AggReturned
    /\ MeasuredSize(lines) <= Budget
    /\ NumSummarized(lines) = 1
    /\ \E i \in 1..Len(groups) : NonEmpty(i) /\ ~Summarized(lines, i)

\* C2: within one call, a key that has a summary override keeps that same
\* override, and the next re-render and the returned lines show it.
C2_OverridesKept ==
    [][ (phase = "aggregate") =>
            \A k \in DOMAIN overrides :
                /\ k \in DOMAIN overrides'
                /\ overrides'[k] = overrides[k]
                /\ lines'[IndexOf(groups, k)] = overrides[k] ]_vars

\* the loop is past its second override and has re-rendered since
C2_Witness ==
    /\ phase = "aggregate"
    /\ Cardinality(DOMAIN overrides) >= 2
    /\ \E k \in DOMAIN overrides : lines[IndexOf(groups, k)] = overrides[k]

\* C3: for any budget the returned lines are one per group, in the mapping's
\* order, each the group's whole detail line or its whole summary line.
C3_OneWholeLinePerGroup ==
    AggReturned =>
        /\ Len(lines) = Len(groups)
        /\ \A i \in 1..Len(groups) :
              \/ lines[i] = DetailLine(i)
              \/ NonEmpty(i) /\ lines[i] = SummaryOf(i)

\* a budget below the length of every line, three groups
C3_Witness ==
    /\ AggReturned
    /\ Len(groups) >= 3
    /\ \A i \in 1..Len(lines) : Budget < Len(lines[i])
    /\ \E i \in 1..Len(groups) : ~NonEmpty(i)

\* the lines with exactly the non-empty groups deeper than group i summarized
DeeperSummarized(i) ==
    [j \in 1..Len(groups) |->
        IF NonEmpty(j) /\ Depth(j) > Depth(i) THEN SummaryOf(j) ELSE DetailLine(j)]

\* C4: deepest first: a summarized group has every deeper non-empty group and
\* every earlier non-empty group of its depth summarized too, and a group
\* stays detailed when summarizing the deeper groups alone meets the budget.
C4_DeepestFirst ==
    AggReturned =>
        \A i \in 1..Len(groups) :
            /\ Summarized(lines, i) =>
                  \A j \in 1..Len(groups) :
                      (NonEmpty(j) /\ (Depth(j) > Depth(i)
                                        \/ (Depth(j) = Depth(i) /\ j < i)))
                          => Summarized(lines, j)
            /\ (NonEmpty(i) /\ MeasuredSize(DeeperSummarized(i)) <= Budget)
                  => lines[i] = DetailLine(i)

\* the verbatim lines are over budget, a deeper group is summarized and a
\* shallower one with files is left detailed
C4_Witness ==
    /\ AggReturned
    /\ MeasuredSize(VerbatimLines) > Budget
    /\ \E i, j \in 1..Len(groups) :
          /\ Depth(j) > Depth(i)
          /\ Summarized(lines, j)
          /\ NonEmpty(i) /\ lines[i] = DetailLine(i)

\* C5: when the verbatim lines measure at most the budget they are returned
\* as they are, with no group summarized.
C5_VerbatimWhenFits ==
    (AggReturned /\ MeasuredSize(VerbatimLines) <= Budget) =>
        /\ lines = VerbatimLines
        /\ NumSummarized(lines) = 0

\* the verbatim lines measure exactly the budget, over two levels of nesting
C5_Witness ==
    /\ AggReturned
    /\ MeasuredSize(VerbatimLines) = Budget
    /\ \E i, j \in 1..Len(groups) : NonEmpty(i) /\ NonEmpty(j) /\ Depth(i) < Depth(j)

\* C6: for the same groups and count option, a budget B2 >= B1 never
\* summarizes more groups than B1 does (B1 is the budget of the call that
\* returned, B2 ranges over the budgets from B1 up).
C6_BudgetMonotone ==
    AggReturned =>
        \A b2 \in Budget..MaxBudget :
            NumSummarized(_aggregate_deep_groups(groups, b2, short_options.count))
                <= NumSummarized(lines)

\* the same groups are summarized to three different extents by three budgets
C6_Witness ==
    /\ AggReturned
    /\ NumSummarized(lines) = 2
    /\ \E b2, b3 \in Budget..MaxBudget :
          /\ NumSummarized(_aggregate_deep_groups(groups, b2, short_options.count)) = 1
          /\ NumSummarized(_aggregate_deep_groups(groups, b3, short_options.count)) = 0

\* C7: the root group "." is summarized only when every other group with
\* files is summarized already.
C7_RootLast ==
    AggReturned =>
        \A i \in 1..Len(groups) :
            (groups[i].key = <<".">> /\ Summarized(lines, i)) =>
                \A j \in 1..Len(groups) : NonEmpty(j) => Summarized(lines, j)

\* C8: a summary line is exactly "<key>/* (<N> files)" with N the number of
\* files of the group, with or without the count option, and a group without
\* files never gets one.
C8_SummaryForm ==
    AggCalled =>
        /\ \A k \in DOMAIN overrides :
              /\ k \in Keys(groups)
              /\ FilesOf(groups, k) # <<>>
              /\ overrides[k] = SummaryForm(k, Len(FilesOf(groups, k)))
        /\ \A i \in 1..Len(groups) :
              ~NonEmpty(i) => (i \in 1..Len(lines) => lines[i] = groups[i].key)

\* summaries returned under the count option, beside a childless directory
C8_Witness ==
    /\ AggReturned
    /\ short_options.count
    /\ \E i \in 1..Len(groups) : Summarized(lines, i) /\ Len(groups[i].files) = 2
    /\ \E i \in 1..Len(groups) : ~NonEmpty(i) /\ lines[i] = groups[i].key

----------------------------------------------------------------------------
\* Scanner properties

ScanRunning == phase \in {"scan", "scanned"}

\* C9: in scan's result two entries of the same parent are in ascending name
\* order, and no path occurs twice.
C9_SiblingsAscending ==
    ScanRunning =>
        \A i, j \in 1..Len(result) :
            i < j =>
                /\ result[i].path # result[j].path
                /\ (result[i].parent_path = result[j].parent_path)
                      => StrLess(result[i].name, result[j].name)

\* a finished scan that shows hidden names, with two pairs of siblings, one
\* pair below the root's children
C9_Witness ==
    /\ phase = "scanned"
    /\ scan_options.all_files
    /\ \E i, j, k, l \in 1..Len(result) :
          /\ i < j /\ result[i].parent_path = result[j].parent_path
          /\ k < l /\ result[k].parent_path = result[l].parent_path
          /\ result[i].depth = 0 /\ result[k].depth = 1

\* C10: the entries of one parent form one contiguous run of scan's result.
C10_SiblingsContiguous ==
    ScanRunning =>
        \A i, k \in 1..Len(result) :
            (i < k /\ result[i].parent_path = result[k].parent_path) =>
                \A j \in i..k : result[j].parent_path = result[i].parent_path

\* a finished scan over three directories, the root with two entries
C10_Witness ==
    /\ phase = "scanned"
    /\ Cardinality({ result[i].parent_path : i \in 1..Len(result) }) = 3
    /\ \E i, j \in 1..Len(result) :
          i < j /\ result[i].parent_path = result[j].parent_path

\* the object at path p, and every directory above it below the root, passes
\* the filters of the running scan
Passes(p) ==
    \A k \in 1..Len(p) :
        ~Skipped(scan_options, patterns, p[k], Prefix(p, k) \in dirs)
InResult(p) == \E i \in 1..Len(result) : result[i].path = p

\* C11: a scan with max_depth = N - 1 returns no entry of depth N or more, and
\* returns every filesystem object of parent depth below N that passes the
\* other filters together with all the directories above it.
C11_DepthLaw ==
    (ScanRunning /\ scan_options.max_depth # None) =>
        LET N == scan_options.max_depth[1] + 1
        IN  /\ \A i \in 1..Len(result) : result[i].depth < N
            /\ phase = "scanned" =>
                  \A p \in dirs \cup files :
                      (Len(p) - 1 < N /\ Passes(p)) => InResult(p)

\* a finished scan with max_depth = 1 that returned entries of depth 1 and left
\* out an object of depth 2 that passes the filters
C11_Witness ==
    /\ phase = "scanned"
    /\ scan_options.max_depth = Some(1)
    /\ \E i \in 1..Len(result) : result[i].depth = 1
    /\ \E p \in dirs \cup files : Len(p) = 3 /\ Passes(p) /\ ~InResult(p)

\* the name at position k of path p is excluded by the hidden-name rule or by
\* the entry filter
ExcludedAt(p, k) ==
    \/ ~scan_options.all_files /\ p[k][1] = "."
    \/ \E i \in 1..Len(patterns) : fnmatch(p[k], patterns[i])
ExcludedOnPath(p) == \E k \in 1..Len(p) : ExcludedAt(p, k)
ResultPaths == { result[i].path : i \in 1..Len(result) }

\* C12: with no depth limit and no type filter, a filesystem object is in
\* scan's result if and only if neither it nor a directory above it (below the
\* root) is excluded by the hidden-name rule or by the entry filter.
C12_SubtreeExclusion ==
    (phase = "scanned" /\ scan_options.max_depth = None
        /\ ~scan_options.dirs_only) =>
        ResultPaths = { p \in dirs \cup files : ~ExcludedOnPath(p) }

\* such a scan that left out an object below an excluded directory although
\* its own name is not excluded, and returned the content of another directory
C12_Witness ==
    /\ phase = "scanned"
    /\ scan_options.max_depth = None /\ ~scan_options.dirs_only
    /\ \E p \in dirs \cup files :
          /\ Len(p) = 2 /\ ExcludedAt(p, 1) /\ ~ExcludedAt(p, 2)
          /\ ~InResult(p)
    /\ \E i \in 1..Len(result) : result[i].depth = 1

----------------------------------------------------------------------------
\* Scanner properties: filesystem faults

\* the filesystem with directory D readable and nothing below it
EmptyDir(fs, D) ==
    LET Outside(S) == { p \in S : ~IsProperPrefix(D, p) }
    IN  [fs EXCEPT !.dirs = Outside(@), !.files = Outside(@),
                   !.links = Outside(@), !.stat_faults = Outside(@),
                   !.unreadable = @ \ {D}]

\* C14: when listing a directory D fails for lack of permission, scan returns
\* normally: no entry below D is in the result, and the result, the entry
\* of D included, is what the scan returns when D is an empty directory.
C14_PermissionFailSoft ==
    unreadable # {} =>
        /\ phase # "raised"
        /\ phase = "scanned" =>
              \A D \in unreadable :
                  /\ \A i \in 1..Len(result) :
                        ~IsProperPrefix(D, result[i].path)
                  /\ result = scan(EmptyDir(FS, D), scan_options, patterns).result

\* a finished scan that returned the entry of an unreadable directory with
\* content, and another entry
C14_Witness ==
    /\ phase = "scanned"
    /\ \E D \in unreadable :
          /\ InResult(D)
          /\ \E p \in AllNodes : IsProperPrefix(D, p)
          /\ \E i \in 1..Len(result) : result[i].path # D

\* C15: whatever filesystem fault scan meets (a directory that is gone when it
\* is to be listed, an entry whose type cannot be read), it does not raise,
\* and an entry whose type cannot be read is left out of the result.
C15_FailSoftAnyFault ==
    /\ phase # "raised"
    /\ ScanRunning =>
          \A i \in 1..Len(result) : result[i].path \notin stat_faults

\* C16: a symbolic link to a directory is returned as an entry with
\* is_dir = FALSE, is never on the work stack, and no path that leads through
\* a link is in the result.
C16_LinksNotFollowed ==
    ScanRunning =>
        /\ \A i \in 1..Len(result) :
              /\ result[i].path \in links => ~result[i].is_dir
              /\ \A l \in links : ~IsProperPrefix(l, result[i].path)
        /\ \A k \in 1..Len(stack) : stack[k].dir \notin links

\* a finished scan that returned the entry of a link below the root's
\* directory, whose target, the root, has more entries
C16_Witness ==
    /\ phase = "scanned"
    /\ \E i, j \in 1..Len(result) :
          /\ result[i].path \in links
          /\ result[i].depth = 1
          /\ result[j].depth = 0 /\ ~result[j].is_dir

\* C17: when the root is missing or is no directory, scan returns the empty
\* sequence at once and does not raise; an existing empty directory gives the
\* empty sequence too.
C17_RootNotADirectory ==
    /\ root_kind # "dir" =>
          /\ phase # "raised"
          /\ phase # "setup" =>
                phase = "scanned" /\ result = <<>> /\ stack = <<>>
    /\ (root_kind = "dir" /\ AllNodes = {}) =>
          /\ phase # "raised"
          /\ phase = "scanned" => result = <<>>

\* scan has returned for a root that is a regular file
C17_Witness ==
    /\ phase = "scanned"
    /\ root_kind = "file"
    /\ result = <<>>

----------------------------------------------------------------------------
\* Scanner properties: the files-only and the ignore-file options

HasIgnoreFile == <<GitignoreName>> \in files
\* the ignore file's patterns match the object at the first k names of p
IgnoredAt(p, k) ==
    /\ HasIgnoreFile
    /\ match_file(ignore_lines, Prefix(p, k), Prefix(p, k) \in dirs)
IgnoredOnPath(p) == \E k \in 1..Len(p) : IgnoredAt(p, k)

\* the file at p passes the filters other than files-only: depth, hidden
\* names, and the ignore spec when it is in use
FilePasses(p) ==
    /\ scan_options.max_depth # None => Len(p) - 1 <= scan_options.max_depth[1]
    /\ ~ExcludedOnPath(p)
    /\ ~(gitignore /\ IgnoredOnPath(p))

----------------------------------------------------------------------------
\* Tree formatter properties

CompatRunning == phase \in {"compat", "compat_done"}

\* the rendered items i < j are children of the same rendered parent: same
\* prefix, and no item of a shallower level between them
RenderedSiblings(i, j) ==
    /\ i < j
    /\ rendered[i].prefix = rendered[j].prefix
    /\ \A k \in i..j : Len(rendered[k].prefix) >= Len(rendered[i].prefix)

\* name x may stand before name y in the order asked for
InOrder(x, y) ==
    IF compat_options.order = "desc" THEN ~StrLess(x, y) ELSE ~StrLess(y, x)

\* C20: whatever the input list, the rendered children of one parent are in
\* non-decreasing name order in ascending mode and non-increasing order in
\* descending mode; with dirs_first every directory comes before every file
\* and the directories, and the files, are in that order among themselves.
C20_SiblingOrder ==
    CompatRunning =>
        \A i, j \in 1..Len(rendered) :
            RenderedSiblings(i, j) =>
                LET a == rendered[i].entry
                    b == rendered[j].entry
                IN  IF compat_options.dirs_first
                    THEN /\ b.is_dir => a.is_dir
                         /\ (a.is_dir = b.is_dir) => InOrder(a.name, b.name)
                    ELSE InOrder(a.name, b.name)

\* a descending dirs_first rendering whose input had, below the directory
\* "a", a file before a directory with a smaller name than the file's
C20_Witness ==
    /\ phase = "compat_done"
    /\ compat_options.dirs_first /\ compat_options.order = "desc"
    /\ \E i, j \in 1..Len(rendered) :
          /\ RenderedSiblings(i, j)
          /\ rendered[i].prefix # <<>>
          /\ rendered[i].entry.is_dir /\ ~rendered[j].entry.is_dir
          /\ StrLess(rendered[i].entry.name, rendered[j].entry.name)
          /\ \E k, l \in 1..Len(centries) :
                k < l /\ centries[k] = rendered[j].entry
                      /\ centries[l] = rendered[i].entry

\* the lines between the root line and the report: one per rendered entry
EntryLines ==
    IF phase = "compat_done" /\ ~compat_options.no_report
    THEN SubSeq(clines, 2, Len(clines) - 2)
    ELSE SubSeq(clines, 2, Len(clines))
\* a directory's line ends with "/", a file's line does not
IsDirLine(l) == l # <<>> /\ l[Len(l)] = "/"
NumDirLines == Cardinality({ i \in 1..Len(EntryLines) : IsDirLine(EntryLines[i]) })
NumFileLines == Cardinality({ i \in 1..Len(EntryLines) : ~IsDirLine(EntryLines[i]) })
\* "<n> directory" for n = 1, "<n> directories" otherwise; "file" likewise
CountWords(n, one, many) == Str(n) \o <<" ">> \o (IF n = 1 THEN one ELSE many)
ReportText(nd, nf) ==
    CountWords(nd, <<"d", "i", "r", "e", "c", "t", "o", "r", "y">>,
                   <<"d", "i", "r", "e", "c", "t", "o", "r", "i", "e", "s">>)
        \o <<",", " ">>
        \o CountWords(nf, <<"f", "i", "l", "e">>, <<"f", "i", "l", "e", "s">>)
\* "0 directories, 0 files"
EmptyReport ==
    <<"0", " ", "d", "i", "r", "e", "c", "t", "o", "r", "i", "e", "s", ",", " ",
      "0", " ", "f", "i", "l", "e", "s">>

\* C21: the output of format_compat ends with an empty line and the report
\* "<D> director(y|ies), <F> file(s)", D and F being the numbers of directory
\* lines and file lines rendered and the singular used exactly for a count of
\* 1; for an empty list the report is "0 directories, 0 files"; with
\* no_report the output is the root line and the entry lines alone.
C21_ReportLine ==
    phase = "compat_done" =>
        IF compat_options.no_report
        THEN /\ clines = << <<".">> >> \o EntryLines
             /\ Len(EntryLines) = Len(rendered)
             /\ \A i \in 1..Len(clines) :
                   clines[i] # ReportText(NumDirLines, NumFileLines)
        ELSE /\ Len(clines) = Len(rendered) + 3
             /\ clines[Len(clines) - 1] = <<>>
             /\ clines[Len(clines)] = ReportText(NumDirLines, NumFileLines)
             /\ centries = <<>> => clines[Len(clines)] = EmptyReport

\* a rendering with the report of one directory and one file
C21_Witness ==
    /\ phase = "compat_done"
    /\ ~compat_options.no_report
    /\ NumDirLines = 1 /\ NumFileLines = 1
    /\ clines[Len(clines)] =
          <<"1", " ", "d", "i", "r", "e", "c", "t", "o", "r", "y", ",", " ",
            "1", " ", "f", "i", "l", "e">>

----------------------------------------------------------------------------
\* Tabular formatter properties

\* "parent_dir,filename,fullpath,depth"
HeaderRow ==
    <<"p", "a", "r", "e", "n", "t", "_", "d", "i", "r", ",",
      "f", "i", "l", "e", "n", "a", "m", "e", ",",
      "f", "u", "l", "l", "p", "a", "t", "h", ",", "d", "e", "p", "t", "h">>
\* the row of an entry: parent name, name, full path, depth
RowOf(e) ==
    PathName(e.parent_path) \o <<",">> \o e.name \o <<",">>
        \o PathStr(e.path) \o <<",">> \o Str(e.depth)
\* the input entries that get a row
RowEntries ==
    { i \in 1..Len(centries) : ~(csv_options.files_only /\ centries[i].is_dir) }
DataLines == SubSeq(csv_lines, 2, Len(csv_lines))

\* C22: the first line format_csv returns is the header row; the lines after
\* it are the rows of the input entries, one per entry, or one per
\* non-directory entry with files_only; for an empty list the header row is
\* the whole output.
C22_CsvRows ==
    phase = "csv_done" =>
        /\ Len(csv_lines) >= 1
        /\ csv_lines[1] = HeaderRow
        /\ Len(DataLines) = Cardinality(RowEntries)
        /\ \A i \in RowEntries :
              Cardinality({ k \in 1..Len(DataLines) : DataLines[k] = RowOf(centries[i]) })
                = Cardinality({ j \in RowEntries : RowOf(centries[j]) = RowOf(centries[i]) })
        /\ centries = <<>> => csv_lines = <<HeaderRow>>

\* a files_only output in descending order of a list with two directories
\* and two files
C22_Witness ==
    /\ phase = "csv_done"
    /\ csv_options.files_only /\ csv_options.order = "desc"
    /\ Len(centries) = 4
    /\ Len(csv_lines) = 3
    /\ csv_lines[2] # csv_lines[3]

----------------------------------------------------------------------------
\* Order option of the compact and the tabular formatter

\* what the ascending call returns for the same entries and options
AscGroups == _group_entries_by_parent(result)
AscShortLines ==
    IF short_options.budget = None
    THEN _build_lines(AscGroups, <<>>, short_options.count)
    ELSE _aggregate_deep_groups(AscGroups, short_options.budget[1],
                                short_options.count)
AscCsvEntries == SelectSeq(result, LAMBDA e : ~(csv_options.files_only /\ e.is_dir))
AscCsvLines == format_csv(result, csv_options.files_only, "asc")
\* the first and the last position of the parent group of position k
RunLo(es, k) ==
    CHOOSE lo \in 1..k :
        /\ \A i \in lo..k : es[i].parent_path = es[k].parent_path
        /\ lo > 1 => es[lo - 1].parent_path # es[k].parent_path
RunHi(es, k) ==
    CHOOSE hi \in k..Len(es) :
        /\ \A i \in k..hi : es[i].parent_path = es[k].parent_path
        /\ hi < Len(es) => es[hi + 1].parent_path # es[k].parent_path

\* C23: for the result of a scan, format_short in descending order returns
\* the groups of the ascending call in the same order, the same groups
\* summarized, and in each detail line the ascending names in exactly the
\* reverse order; format_csv in descending order returns the rows of the
\* ascending call with the rows of each parent group, in place, in exactly
\* the reverse order.
C23_DescReversesWithinGroups ==
    /\ (phase = "rendered" /\ result # <<>> /\ short_options.order = "desc") =>
          /\ Len(groups) = Len(AscGroups)
          /\ Len(lines) = Len(AscShortLines)
          /\ \A i \in 1..Len(groups) :
                LET asc == AscGroups[i].files
                    n == Len(asc)
                IN  /\ groups[i].key = AscGroups[i].key
                    /\ Len(groups[i].files) = n
                    /\ \A k \in 1..n : groups[i].files[k] = asc[n + 1 - k]
                    /\ IF AscShortLines[i] =
                             _format_group_line(AscGroups[i].key, asc,
                                                short_options.count)
                       THEN lines[i] =
                               _format_group_line(AscGroups[i].key, Reverse(asc),
                                                  short_options.count)
                       ELSE lines[i] = AscShortLines[i]
    /\ (phase = "csv_done" /\ csv_options.order = "desc") =>
          /\ Len(csv_lines) = Len(AscCsvLines)
          /\ csv_lines[1] = AscCsvLines[1]
          /\ \A k \in 1..Len(AscCsvEntries) :
                csv_lines[1 + k] =
                    AscCsvLines[1 + RunLo(AscCsvEntries, k)
                                  + RunHi(AscCsvEntries, k) - k]

\* a descending csv output of a scan with two entries in the root and two
\* in its directory
C23_Witness ==
    /\ phase = "csv_done" /\ csv_options.order = "desc"
    /\ Len(AscCsvEntries) = 4
    /\ RunHi(AscCsvEntries, 1) = 2
    /\ RunLo(AscCsvEntries, 4) = 3
    /\ csv_lines # AscCsvLines

\* a descending compact output, under a budget, with a summarized group and
\* a detailed group of two files
C23_WitnessShort ==
    /\ phase = "rendered" /\ short_options.order = "desc"
    /\ short_options.budget # None
    /\ \E i, j \in 1..Len(groups) :
          /\ Summarized(lines, i)
          /\ Len(groups[j].files) = 2 /\ lines[j] = DetailLine(j)

----------------------------------------------------------------------------
\* Command line properties

\* a run of the command line was started with level N
RunWithLevel(N) == args # None /\ args[1].max_depth = Some(N)

C24_WitnessInvalid ==
    /\ phase = "error"
    /\ RunWithLevel(0)
    /\ AllNodes # {}

\* the arguments a of a run on a root of the given kind are not valid
InvalidRun(kind, a) ==
    \/ kind # "dir"
    \/ a.max_depth # None /\ a.max_depth[1] < 1
    \/ a.preset # None /\ a.preset[1] \notin {"python", "node", "rust", "generic"}
    \/ a.budget # None /\ a.budget[1] < 1
    \/ a.budget # None /\ ~a.short_mode
    \/ a.count /\ ~a.short_mode
    \/ a.short_mode /\ a.dirs_only
    \/ a.csv_mode /\ a.short_mode
    \/ a.csv_mode /\ a.md_mode
    \/ a.files_only /\ a.dirs_only
    \/ a.files_only /\ a.short_mode
\* nothing was scanned and no formatter has run
NothingDone ==
    /\ stack = <<>> /\ result = <<>>
    /\ scan_options = ScanOptions(None, FALSE, FALSE)
    /\ lines = <<>> /\ groups = <<>>
    /\ clines = <<>> /\ rendered = <<>>
    /\ csv_lines = <<>>

\* C25: a run whose root is no directory, whose level or budget is below 1,
\* whose preset is unknown, that has a budget or the count without the
\* compact mode, or one of the pairs compact with directories-only, tabular
\* with compact, tabular with markdown, files-only with directories-only,
\* files-only with compact, ends with an NtreeError, with nothing scanned and
\* no output.
C25_ValidationBeforeScan ==
    (args # None /\ InvalidRun(root_kind, args[1])) =>
        /\ phase = "error"
        /\ error # None
        /\ NothingDone

\* a run on a directory with content that ended with the error of files-only
\* with compact, every other option being valid
C25_Witness ==
    /\ phase = "error"
    /\ AllNodes # {}
    /\ args # None
    /\ args[1].files_only /\ args[1].short_mode
    /\ args[1].budget = Some(1) /\ args[1].max_depth = Some(1)
    /\ args[1].preset = Some("rust")
    /\ ~args[1].csv_mode /\ ~args[1].dirs_only
    /\ error = Some("--files-only (-F) is incompatible with --short")

\* a run with valid arguments has produced output
C25_WitnessValid ==
    /\ phase = "wrapped"
    /\ args # None /\ ~InvalidRun(root_kind, args[1])
    /\ args[1].files_only
    /\ Len(clines) >= 3

----------------------------------------------------------------------------
\* Grouping properties

\* the root-relative path of p, "." for the root
RelKey(p) == IF p = Root THEN <<".">> ELSE Join(p, <<"/">>)
\* the groups whose file list holds entry e
GroupsHolding(e) ==
    { k \in 1..Len(groups) : \E n \in 1..Len(groups[k].files) : groups[k].files[n] = e }
\* an entry of the input has the directory at path p as its parent
HasChildEntry(p) == \E j \in 1..Len(centries) : centries[j].parent_path = p

\* C26: in the mapping _group_entries_by_parent returns, the keys are
\* distinct; every non-directory entry is in the file list of exactly one
\* group, the one keyed by its parent's root-relative path, as often as it is
\* in the input; no file list holds a directory entry; and for a directory
\* entry there is a group keyed by its path followed by "/" if and only if no
\* entry of the input has the directory as its parent, and that group's file
\* list is empty.
C26_GroupingByParent ==
    phase = "grouped" =>
        /\ \A k, l \in 1..Len(groups) : groups[k].key = groups[l].key => k = l
        /\ \A i \in 1..Len(centries) :
              LET e == centries[i]
              IN  IF ~e.is_dir
                  THEN /\ Cardinality(GroupsHolding(e)) = 1
                       /\ \A k \in GroupsHolding(e) :
                             /\ groups[k].key = RelKey(e.parent_path)
                             /\ Cardinality({ n \in 1..Len(groups[k].files) :
                                                groups[k].files[n] = e })
                                  = Cardinality({ j \in 1..Len(centries) :
                                                    centries[j] = e })
                  ELSE /\ GroupsHolding(e) = {}
                       /\ (\E k \in 1..Len(groups) :
                               groups[k].key = RelKey(e.path) \o <<"/">>)
                             <=> ~HasChildEntry(e.path)
                       /\ \A k \in 1..Len(groups) :
                             groups[k].key = RelKey(e.path) \o <<"/">>
                                => groups[k].files = <<>>

\* a grouping of a list with a directory that has a file, a directory
\* without entries below it, and a file in the root
C26_Witness ==
    /\ phase = "grouped"
    /\ \E i, j, k, l \in 1..Len(centries) :
          /\ centries[i].is_dir /\ HasChildEntry(centries[i].path)
          /\ ~centries[j].is_dir /\ centries[j].parent_path = centries[i].path
          /\ centries[k].is_dir /\ ~HasChildEntry(centries[k].path)
          /\ ~centries[l].is_dir /\ centries[l].parent_path = Root
    /\ Len(groups) = 3

----------------------------------------------------------------------------
\* Tree formatter properties: connectors and prefixes

\* the glyphs of the character set in use
Corner ==
    IF compat_options.charset = "ascii" THEN <<"\\", "-", "-", " ">>
    ELSE <<"U+2514", "U+2500", "U+2500", " ">>
Branch ==
    IF compat_options.charset = "ascii" THEN <<"|", "-", "-", " ">>
    ELSE <<"U+251C", "U+2500", "U+2500", " ">>
VerticalBar ==
    IF compat_options.charset = "ascii" THEN <<"|", " ", " ", " ">>
    ELSE <<"U+2502", " ", " ", " ">>
BlankPadding == <<" ", " ", " ", " ">>

\* the level of the i-th rendered entry: 0 for the children of the root
Level(i) == Len(rendered[i].prefix) \div 4
\* the rendered entries after i, below the same rendered parent
LaterSiblings(i) ==
    { j \in (i + 1)..Len(rendered) :
        /\ Level(j) = Level(i)
        /\ \A k \in i..j : Level(k) >= Level(i) }
LastSibling(i) == LaterSiblings(i) = {}
\* the rendered entries that are the children of the i-th
RenderedChildren(i) ==
    { j \in (i + 1)..Len(rendered) :
        /\ Level(j) = Level(i) + 1
        /\ \A k \in (i + 1)..j : Level(k) > Level(i) }
\* the name shown for an entry
ShownName(e) == IF e.is_dir THEN e.name \o <<"/">> ELSE e.name

\* C27: in the finished rendering the line of every entry is its prefix, the
\* corner connector if it is the last of its rendered siblings and the
\* branch connector otherwise, and its name; the children of the root have
\* the empty prefix, and the children of a directory have the directory's
\* prefix followed by the vertical bar segment if the directory is not the
\* last sibling and by blank padding if it is.
C27_ConnectorsAndPrefixes ==
    phase = "compat_done" =>
        \A i \in 1..Len(rendered) :
            /\ clines[i + 1] =
                  rendered[i].prefix
                    \o (IF LastSibling(i) THEN Corner ELSE Branch)
                    \o ShownName(rendered[i].entry)
            /\ rendered[i].entry.is_dir =>
                  \A j \in RenderedChildren(i) :
                      rendered[j].prefix =
                          rendered[i].prefix
                            \o (IF LastSibling(i) THEN BlankPadding
                                ELSE VerticalBar)
            /\ \/ rendered[i].prefix = <<>>
               \/ \E p \in 1..(i - 1) :
                     rendered[p].entry.is_dir /\ i \in RenderedChildren(p)

\* an ascii rendering with a directory that is not the last sibling and has
\* two children, and a last sibling after it
C27_Witness ==
    /\ phase = "compat_done"
    /\ compat_options.charset = "ascii"
    /\ \E i \in 1..Len(rendered) :
          /\ rendered[i].entry.is_dir
          /\ ~LastSibling(i)
          /\ Cardinality(RenderedChildren(i)) = 2
          /\ \A j \in RenderedChildren(i) :
                rendered[j].prefix = <<"|", " ", " ", " ">>

\* a rendering with a directory that is the last sibling and has children
C27_WitnessLast ==
    /\ phase = "compat_done"
    /\ \E i \in 1..Len(rendered) :
          /\ rendered[i].entry.is_dir
          /\ LastSibling(i) /\ Level(i) = 0
          /\ \E j \in 1..(i - 1) : Level(j) = 0
          /\ RenderedChildren(i) # {}

----------------------------------------------------------------------------
\* Tree formatter properties: the result of a scan

\* the positions of the rendered entries at or below the i-th rendered one
RenderedSubtree(i) ==
    { j \in 1..Len(rendered) :
        j = i \/ IsProperPrefix(rendered[i].entry.path, rendered[j].entry.path) }
\* every entry of the list in S is rendered exactly once, nothing else is,
\* the lines and the counters agree, and each directory's line is followed at
\* once by the lines of everything rendered below it
RendersExactly(S) ==
    /\ Len(rendered) = Cardinality(S)
    /\ \A i \in S :
          Cardinality({ j \in 1..Len(rendered) : rendered[j].entry = centries[i] }) = 1
    /\ Len(clines) = Cardinality(S) + 3
    /\ dir_count + file_count = Cardinality(S)
    /\ clines[Len(clines)] = ReportText(dir_count, file_count)
    /\ \A i \in 1..Len(rendered) :
          RenderedSubtree(i) = i..(i + Cardinality(RenderedSubtree(i)) - 1)

C28_WitnessFilesOnly ==
    /\ phase = "compat_done" /\ centries = result
    /\ files_only
    /\ Len(result) = 2 /\ Len(rendered) = 1
    /\ result[1].depth = 0 /\ result[2].depth = 1

----------------------------------------------------------------------------
\* Aggregation: convergence

\* C29: the summary line of a group with files is never longer than its
\* detail line, each re-render of _aggregate_deep_groups measures at most
\* what the re-render before it measured, and the lines returned measure at
\* most what the verbatim lines measure.
C29_SizeNeverGrows ==
    /\ [](AggCalled =>
            \A i \in 1..Len(groups) :
                NonEmpty(i) => Len(SummaryOf(i)) <= Len(DetailLine(i)))
    /\ [][phase = "aggregate" => MeasuredSize(lines') <= MeasuredSize(lines)]_vars
    /\ [](AggReturned => MeasuredSize(lines) <= MeasuredSize(VerbatimLines))

----------------------------------------------------------------------------
\* Scanner: termination

StackDirs(stk) == { stk[k].dir : k \in 1..Len(stk) }
\* no directory is twice on the work stack, none that is on it is the
\* directory of an entry listed already, and no path is twice in the result
NoneTwice ==
    /\ \A k, l \in 1..Len(stack) : stack[k].dir = stack[l].dir => k = l
    /\ \A k \in 1..Len(stack), i \in 1..Len(result) :
          result[i].parent_path # stack[k].dir
    /\ \A i, j \in 1..Len(result) : result[i].path = result[j].path => i = j
\* an iteration pops the top of the stack and pushes only directories whose
\* entries it has just appended to the result
PopsOneAndPushesNew ==
    (phase = "scan" /\ stack # <<>> /\ stack' # stack) =>
        /\ Len(stack') >= Len(stack) - 1
        /\ SubSeq(stack', 1, Len(stack) - 1) = SubSeq(stack, 1, Len(stack) - 1)
        /\ \A k \in Len(stack)..Len(stack') :
              /\ stack'[k].dir \notin StackDirs(stack)
              /\ \E i \in (Len(result) + 1)..Len(result') :
                    result'[i].path = stack'[k].dir /\ result'[i].is_dir

\* while the loop test holds an iteration can be taken and changes the stack
LoopTestEnablesStep ==
    (phase = "scan" /\ stack # <<>>) =>
        Iteration(FS, scan_options, patterns, stack, result).stack # stack

\* C30: a running scan returns: each iteration pops one directory and pushes
\* only directories that were never on the stack before, so that a directory
\* is pushed and popped at most once; no filesystem object is twice in the
\* result; and when scan has returned the work stack is empty.
C30_ScanTerminates ==
    /\ (phase = "scan") ~> (phase = "scanned")
    /\ []LoopTestEnablesStep
    /\ [](ScanRunning => NoneTwice)
    /\ [][PopsOneAndPushesNew]_vars
    /\ [](phase = "scanned" => stack = <<>>)

\* a scan has returned from a tree with a link to the root below a directory
\* of the root, with the entries of both
C30_Witness ==
    /\ phase = "scanned"
    /\ stack = <<>>
    /\ \E i, j \in 1..Len(result) :
          /\ result[i].is_dir /\ result[i].depth = 0
          /\ result[j].path \in links /\ result[j].parent_path = result[i].path

====
